---- MODULE Spec2Model ----
(***************************************************************************)
(* Verification model of pgp-serverless-js: the Result values, the          *)
(* AsyncResultGenerator wrapper, the paginated key searches of the backend  *)
(* and the best-guess search resolver.                                      *)
(*                                                                          *)
(* JavaScript values are records: a string is a sequence of one-character   *)
(* strings, `undefined` is the record Undefined, an Error is a record with  *)
(* type "error".  A Result is a record that has either the field `value`    *)
(* or the field `cause`, as in the source.                                  *)
(***************************************************************************)
EXTENDS Integers, Sequences, FiniteSets, TLC

(***************************************************************************)
(* Bounds of the model.                                                     *)
(***************************************************************************)
MaxPages == 2
MaxItems == 2

(***************************************************************************)
(* Program constants.                                                       *)
(***************************************************************************)
KeyIdLen == 16
FingerprintLenV3 == 32
FingerprintLenV4 == 40
FingerprintLenV6 == 64

(***************************************************************************)
(* Strings.                                                                 *)
(***************************************************************************)
Upper(c) ==
    CASE c = "a" -> "A" [] c = "b" -> "B" [] c = "c" -> "C"
      [] c = "d" -> "D" [] c = "e" -> "E" [] c = "f" -> "F"
      [] c = "g" -> "G" [] c = "o" -> "O" [] c = "u" -> "U"
      [] c = "x" -> "X"
      [] OTHER -> c

toUpperCase(s) == [i \in 1..Len(s) |-> Upper(s[i])]

\* s.slice(-n): the last n characters, the whole string when it is shorter
sliceLast(s, n) ==
    IF Len(s) <= n THEN s ELSE SubSeq(s, Len(s) - n + 1, Len(s))

\* s.slice(0, -n): all but the last n characters, empty when it is shorter
sliceButLast(s, n) ==
    IF Len(s) <= n THEN <<>> ELSE SubSeq(s, 1, Len(s) - n)

HexDigits ==
    {"0", "1", "2", "3", "4", "5", "6", "7", "8", "9",
     "a", "b", "c", "d", "e", "f", "A", "B", "C", "D", "E", "F"}

IsHexString(s) == Len(s) >= 1 /\ \A i \in 1..Len(s) : s[i] \in HexDigits

HasMarker(s) == Len(s) >= 2 /\ s[1] = "0" /\ s[2] = "x"

\* search.match(HEX_REGEX) !== null
HexMatches(s) ==
    \/ IsHexString(s)
    \/ HasMarker(s) /\ IsHexString(SubSeq(s, 3, Len(s)))

\* match[1]: the hex payload, the marker stripped
HexPayload(s) ==
    IF HasMarker(s) /\ IsHexString(SubSeq(s, 3, Len(s)))
    THEN SubSeq(s, 3, Len(s))
    ELSE s

(***************************************************************************)
(* JavaScript values and Result.                                            *)
(***************************************************************************)
Undefined == [type |-> "undefined"]

Null == [type |-> "null"]

JsString(s) == [type |-> "string", val |-> s]

NewError(name, message) == [type |-> "error", name |-> name, message |-> message]

\* Result.ok
ok(v) == [value |-> v]

JsNumber(n) == [type |-> "number", num |-> n]

JsBoolean(b) == [type |-> "boolean", val |-> b]

\* an object literal; fields maps its own enumerable property names to values
JsObject(fields) == [type |-> "object", fields |-> fields]

\* Object.create(null): an object with neither toString nor valueOf
BareObject == [type |-> "object", fields |-> <<>>, proto |-> "null"]

DecimalDigits == <<"0", "1", "2", "3", "4", "5", "6", "7", "8", "9">>

RECURSIVE DecimalText(_)
DecimalText(n) ==
    IF n < 10 THEN <<DecimalDigits[n + 1]>>
    ELSE DecimalText(n \div 10) \o <<DecimalDigits[(n % 10) + 1]>>

Raised(cause) == [raised |-> cause]

\* String(value): the text of a value, or a raised TypeError for an object
\* that cannot be converted to a primitive
String(v) ==
    CASE v.type = "string" -> JsString(v.val)
      [] v.type = "number" -> JsString(DecimalText(v.num))
      [] v.type = "boolean" ->
            JsString(IF v.val = TRUE THEN <<"t", "r", "u", "e">>
                     ELSE <<"f", "a", "l", "s", "e">>)
      [] v.type = "undefined" ->
            JsString(<<"u", "n", "d", "e", "f", "i", "n", "e", "d">>)
      [] v.type = "null" -> JsString(<<"n", "u", "l", "l">>)
      [] v.type = "error" ->
            JsString(v.name \o <<":", " ">> \o v.message)
      [] OTHER ->
            IF "proto" \in DOMAIN v
            THEN Raised(NewError("TypeError", <<"c", "o", "n", "v", "e", "r", "t">>))
            ELSE JsString(<<"[", "o", "b", "j", "e", "c", "t", " ",
                            "O", "b", "j", "e", "c", "t", "]">>)

\* Result.err: the cause is converted to an error-like value
err(cause) ==
    CASE cause.type \in {"undefined", "null"} ->
            [cause |-> NewError("Error", <<>>)]
      [] cause.type = "string" ->
            [cause |-> NewError("Error", cause.val)]
      [] cause.type \in {"number", "boolean"} ->
            [cause |-> NewError("Error", String(cause).val)]
      [] cause.type = "error" ->
            [cause |-> cause]
      [] OTHER ->
            \* { ...cause, ...new Error(message) }: an Error has no own
            \* enumerable property, so the copy has the fields of cause
            IF "fields" \in DOMAIN cause /\ "message" \in DOMAIN cause.fields
            THEN IF cause.fields.message.type = "string"
                 THEN [cause |-> cause]
                 ELSE IF "raised" \in DOMAIN String(cause.fields.message)
                      THEN String(cause.fields.message)
                      ELSE [cause |-> cause]
            ELSE [cause |-> cause]

isOk(result) == "value" \in DOMAIN result

isErr(result) == ~("value" \in DOMAIN result)

isPresent(result) ==
    /\ "value" \in DOMAIN result
    /\ result.value # Undefined
    /\ result.value # Null

(***************************************************************************)
(* AttributeDecoder: store items and the metadata derived from them.        *)
(* An AttributeValue is [tag, val]; an item maps attribute names to them.   *)
(***************************************************************************)
AttrS(s) == [tag |-> "S", val |-> s]

AttrN(s) == [tag |-> "N", val |-> s]

\* one branch of the if-chain of unfoldAttributes: the native value of a tag
unfoldValue(attr) ==
    CASE attr.tag = "S" -> JsString(attr.val)
      [] attr.tag = "N" -> JsString(attr.val)
      [] attr.tag = "BOOL" -> [type |-> "boolean", val |-> attr.val]
      [] attr.tag = "NULL" -> Null
      [] OTHER -> [type |-> "object", val |-> attr.val]

unfoldAttributes(item) == [k \in DOMAIN item |-> unfoldValue(item[k])]

isStringField(rec, k) == k \in DOMAIN rec /\ rec[k].type = "string"

\* the three assert.ok(typeof ... === 'string') of extractKeyMetadata pass
assertsPass(item) ==
    LET result == unfoldAttributes(item) IN
    /\ isStringField(result, "pgpKeyId")
    /\ isStringField(result, "pgpFingerprintUpper")
    /\ isStringField(result, "primaryUserId")

AssertionError == NewError("AssertionError", <<"f", "a", "l", "s", "e">>)

\* mutant: the two source fields are not deleted
extractKeyMetadataKeepsSources(item) ==
    LET result == unfoldAttributes(item)
    IN [k \in DOMAIN result \cup {"id", "fingerprint"} |->
          IF k = "id" THEN result["pgpKeyId"]
          ELSE IF k = "fingerprint"
               THEN JsString(result["pgpFingerprintUpper"].val \o result["pgpKeyId"].val)
               ELSE result[k]]

\* the record extractKeyMetadata returns when its assertions pass
extractKeyMetadata(item) ==
    LET result == unfoldAttributes(item)
        kept == DOMAIN result \ {"pgpKeyId", "pgpFingerprintUpper"}
    IN [k \in kept \cup {"id", "fingerprint"} |->
          IF k = "id" THEN result["pgpKeyId"]
          ELSE IF k = "fingerprint"
               THEN JsString(result["pgpFingerprintUpper"].val \o result["pgpKeyId"].val)
               ELSE result[k]]

(***************************************************************************)
(* The keyed store: a table of items with distinct primary keys, and the    *)
(* script of its answers.  Page k carries the continuation token k, the    *)
(* last page none (NoKey); a request with start key t is answered by page   *)
(* t + 1.  The last answer of a script may be a failure.                    *)
(***************************************************************************)
Item1 ==
    [pgpKeyId |-> AttrS(<<"K", "1">>), pgpFingerprintUpper |-> AttrS(<<"F", "1">>),
     primaryUserId |-> AttrS(<<"u", "1">>)]

Item2 ==
    [pgpKeyId |-> AttrS(<<"K", "1">>), pgpFingerprintUpper |-> AttrS(<<"F", "2">>),
     primaryUserId |-> AttrS(<<"u", "2">>), keyLength |-> AttrN(<<"4">>)]

\* an item that lacks primaryUserId
ItemBad ==
    [pgpKeyId |-> AttrS(<<"K", "3">>), pgpFingerprintUpper |-> AttrS(<<"F", "3">>)]

Table == {Item1, Item2, ItemBad}

NoKey == 0

StoreError == NewError("ServiceError", <<"E">>)

RECURSIVE Flatten(_)
Flatten(ps) == IF ps = <<>> THEN <<>> ELSE Head(ps) \o Flatten(Tail(ps))

NoDuplicates(s) == \A i, j \in 1..Len(s) : s[i] = s[j] => i = j

ItemSeqs == UNION {[1..n -> Table] : n \in 0..MaxItems}

PageSeqs ==
    {ps \in UNION {[1..n -> ItemSeqs] : n \in 1..MaxPages} : NoDuplicates(Flatten(ps))}

Answers(ps, failLast) ==
    [k \in 1..Len(ps) |->
        [fail |-> failLast /\ k = Len(ps),
         Items |-> ps[k],
         LastEvaluatedKey |-> IF k < Len(ps) THEN k ELSE NoKey]]

Scripts ==
    {Answers(ps, FALSE) : ps \in PageSeqs}
      \cup {Answers(ps, TRUE) : ps \in {qs \in PageSeqs : qs[Len(qs)] = <<>>}}

(***************************************************************************)
(* Requests of the backend.                                                 *)
(***************************************************************************)
NoRequest == [command |-> "none"]

\* mutant: the key id is queried as typed, not uppercased
QueryCommandAsTyped(lk) ==
    [command |-> "Query", KeyConditionExpression |-> "pgpKeyId = :term",
     term |-> lk.search, ExclusiveStartKey |-> NoKey]

\* new QueryCommand(...) of searchKeysById
QueryCommand(lk) ==
    [command |-> "Query", KeyConditionExpression |-> "pgpKeyId = :term",
     term |-> toUpperCase(lk.search), ExclusiveStartKey |-> NoKey]

\* mutant: the exact flag is ignored
FilterExpressionSubstringOnly(exact) ==
    "contains(primaryUserId, :term) OR contains(pgpKeyId, :term) OR contains(pgpFingerprintUpper, :term)"

FilterExpression(exact) ==
    IF exact THEN "primaryUserId = :term"
    ELSE "contains(primaryUserId, :term) OR contains(pgpKeyId, :term) OR contains(pgpFingerprintUpper, :term)"

\* mutant: the filter term is uppercased like the term of the id query
ScanCommandUppercased(lk) ==
    [command |-> "Scan", FilterExpression |-> FilterExpression(lk.exact),
     term |-> toUpperCase(lk.search), ExclusiveStartKey |-> NoKey]

\* new ScanCommand(...) of searchKeysByKeyword
ScanCommand(lk) ==
    [command |-> "Scan", FilterExpression |-> FilterExpression(lk.exact),
     term |-> lk.search, ExclusiveStartKey |-> NoKey]

\* mutant: slice(0, 16) and slice(16), the key id taken from the front
GetItemCommandFromFront(lk) ==
    [command |-> "GetItem",
     pgpKeyId |-> toUpperCase(SubSeq(lk.search, 1, KeyIdLen)),
     pgpFingerprintUpper |-> toUpperCase(SubSeq(lk.search, KeyIdLen + 1, Len(lk.search)))]

\* new GetItemCommand(...) of findKeyByFingerprint
GetItemCommand(lk) ==
    [command |-> "GetItem",
     pgpKeyId |-> toUpperCase(sliceLast(lk.search, KeyIdLen)),
     pgpFingerprintUpper |-> toUpperCase(sliceButLast(lk.search, KeyIdLen))]

\* mutant: the continuation token is not attached to the command
withStartKeyForgotten(req, resp) == req

\* request.input.ExclusiveStartKey = response.LastEvaluatedKey
withStartKey(req, resp) == [req EXCEPT !.ExclusiveStartKey = resp.LastEvaluatedKey]

(***************************************************************************)
(* AsyncResultGenerator.from: the results of the wrapper's methods.         *)
(* A settled call is Fulfilled(done, value) or Rejected(cause).             *)
(***************************************************************************)
Fulfilled(done, value) == [state |-> "fulfilled", done |-> done, value |-> value]

Rejected(cause) == [state |-> "rejected", cause |-> cause]

wrapIteratorResult(result) ==
    IF result.done THEN Fulfilled(TRUE, ok(result.value)) ELSE result

\* mutant: the catch block reports the cause as a success
wrappedCatchOk(under) ==
    IF under.state = "rejected"
    THEN Fulfilled(TRUE, ok(under.cause))
    ELSE wrapIteratorResult(under)

\* mutant: no try/catch, a rejection of the generator reaches the consumer
wrappedNoCatch(under) ==
    IF under.state = "rejected" THEN under ELSE wrapIteratorResult(under)

\* try { wrapIteratorResult(await generator.<method>(...)) } catch (cause) { err(cause) }
wrapped(under) ==
    IF under.state = "rejected"
    THEN Fulfilled(TRUE, err(under.cause))
    ELSE wrapIteratorResult(under)

IsDone(result) == result.state = "fulfilled" /\ result.done

IsYield(result) == result.state = "fulfilled" /\ ~result.done

(***************************************************************************)
(* State.                                                                   *)
(***************************************************************************)
VARIABLES
    entry,      \* the search function the consumer called
    raw,        \* the search text as the caller supplied it
    pages,      \* the script of the store's answers
    lookup,     \* the caller's lookup object
    request,    \* the command object of the search
    calls,      \* the requests sent to the store, as they were when sent
    gstate,     \* the paginating generator: none, start, send, yield, completed
    response,   \* its local `response`
    idx,        \* the position of its for-of loop in response.Items
    ostate,     \* searchKeysByBestGuess: none, start, fpSend, fpYield, delegate, completed
    yielded,    \* the items the consumer has received
    last,       \* the last call the consumer made, with what it got
    firstTerm,  \* the first termination the consumer was given
    pullTerm,   \* the first termination a pull (next) reported
    onlyNext    \* the consumer has called nothing but next

VARIABLES
    given       \* the lookup as the caller constructed it

VARIABLES
    arun,       \* the AsyncResult call whose underlying promise is pending
    alog        \* the AsyncResult calls that have settled, with their settlement

asyncVars == <<arun, alog>>

VARIABLES
    hpc,        \* the handler: none, pull, getObject, read, done
    key,        \* generateKeyStreams: the KeyMetadata of its local `next`
    objects,    \* the object store: what GetObject gives for each key name
    gets,       \* the GetObject commands sent
    chunks,     \* the formatter's local `chunks`
    rpos,       \* formatKeys: the chunks of the current stream already read
    hres        \* the Result the handler returned

getVars == <<hpc, key, objects, gets, chunks, rpos, hres>>

VARIABLES
    source,     \* formatIndices: the keyMetas it is given, items and termination
    taken,      \* the items of the source already pulled
    indices     \* formatJsonIndices: its local `indices`, in insertion order

indexVars == <<source, taken, indices>>

VARIABLES
    event,      \* the request the entry point was called with
    reply       \* the response the entry point returned

entryVars == <<event, reply>>

\* what the search and the consumer never write
handlerVars == <<given, asyncVars, getVars, indexVars, entryVars>>

vars ==
    <<entry, raw, pages, lookup, request, calls, gstate, response, idx, ostate,
      yielded, last, firstTerm, pullTerm, onlyNext, handlerVars>>

\* what the consumer has seen
seen == <<yielded, last, firstTerm, pullTerm, onlyNext>>

NoCall == [call |-> "none"]

NoResponse == [fail |-> FALSE, Items |-> <<>>, LastEvaluatedKey |-> NoKey]

Terminated == firstTerm # NoCall

(***************************************************************************)
(* Search texts the runs start from.                                        *)
(***************************************************************************)
Repeat(pattern, n) == [i \in 1..n |-> pattern[((i - 1) % Len(pattern)) + 1]]

HexPattern == <<"a", "B", "7", "0", "c">>

WordPattern == <<"b", "o", "g", "u", "s">>

Marker == <<"0", "x">>

SearchLengths ==
    {3, KeyIdLen - 1, KeyIdLen, KeyIdLen + 1, FingerprintLenV3, FingerprintLenV4,
     FingerprintLenV6, FingerprintLenV6 + 1}

GuessSearches ==
    {prefix \o Repeat(pattern, n) :
        prefix \in {<<>>, Marker}, pattern \in {HexPattern, WordPattern},
        n \in SearchLengths}

DirectSearches == {Repeat(HexPattern, KeyIdLen)}

(***************************************************************************)
(* What a settled call gives the consumer.                                  *)
(***************************************************************************)
\* yield* of searchKeysByBestGuess: an inner termination is returned as the
\* outer one, an inner item is yielded
delegated(result) ==
    IF result.done THEN Fulfilled(TRUE, result.value) ELSE result

Record(call, arg, under, result) ==
    /\ last' = [call |-> call, arg |-> arg, under |-> under, result |-> result,
                afterDone |-> Terminated]
    /\ yielded' = IF IsYield(result) THEN Append(yielded, result.value) ELSE yielded
    /\ firstTerm' = IF ~Terminated /\ IsDone(result)
                    THEN [call |-> call, value |-> result.value]
                    ELSE firstTerm
    /\ pullTerm' = IF pullTerm = NoCall /\ call = "next" /\ IsDone(result)
                   THEN [call |-> call, value |-> result.value]
                   ELSE pullTerm
    /\ onlyNext' = (onlyNext /\ call = "next")

\* a method of the wrapper settles, directly or under the yield* of the resolver
Deliver(call, arg, under) ==
    IF entry = "searchKeysByBestGuess"
    THEN /\ Record(call, arg, under, delegated(wrapped(under)))
         /\ ostate' = IF wrapped(under).done THEN "completed" ELSE ostate
    ELSE /\ Record(call, arg, under, wrapped(under))
         /\ UNCHANGED ostate

\* searchKeysByBestGuess itself settles
DeliverOuter(result, next) ==
    /\ Record("next", Undefined, result, result)
    /\ ostate' = next

\* mutant: a page without items ends the sequence, token or not
ResumeStopsAtEmptyPage(resp, i, call, arg) ==
    /\ response' = resp
    /\ idx' = i
    /\ IF i <= Len(resp.Items)
       THEN /\ UNCHANGED <<request, calls>>
            /\ IF assertsPass(resp.Items[i])
               THEN /\ gstate' = "yield"
                    /\ Deliver(call, arg, Fulfilled(FALSE, extractKeyMetadata(resp.Items[i])))
               ELSE /\ gstate' = "completed"
                    /\ Deliver(call, arg, Rejected(AssertionError))
       ELSE IF resp.LastEvaluatedKey = NoKey \/ resp.Items = <<>>
            THEN /\ UNCHANGED <<request, calls>>
                 /\ gstate' = "completed"
                 /\ Deliver(call, arg, Fulfilled(TRUE, Undefined))
            ELSE /\ request' = withStartKey(request, resp)
                 /\ calls' = Append(calls, request')
                 /\ gstate' = "send"
                 /\ UNCHANGED <<ostate, seen>>

(***************************************************************************)
(* The body of the paginating generator (searchKeysById and                 *)
(* searchKeysByKeyword have the same one), from the top of the for-of loop  *)
(* at position i of response resp to its next await, yield or end.          *)
(***************************************************************************)
Resume(resp, i, call, arg) ==
    /\ response' = resp
    /\ idx' = i
    /\ IF i <= Len(resp.Items)
       THEN /\ UNCHANGED <<request, calls>>
            /\ IF assertsPass(resp.Items[i])
               THEN /\ gstate' = "yield"
                    /\ Deliver(call, arg, Fulfilled(FALSE, extractKeyMetadata(resp.Items[i])))
               ELSE /\ gstate' = "completed"
                    /\ Deliver(call, arg, Rejected(AssertionError))
       ELSE IF resp.LastEvaluatedKey = NoKey
            THEN /\ UNCHANGED <<request, calls>>
                 /\ gstate' = "completed"
                 /\ Deliver(call, arg, Fulfilled(TRUE, Undefined))
            ELSE /\ request' = withStartKey(request, resp)
                 /\ calls' = Append(calls, request')
                 /\ gstate' = "send"
                 /\ UNCHANGED <<ostate, seen>>

\* mutant: a pull of the completed generator sends the request again
GeneratorNextRetries ==
    CASE gstate = "start" ->
            /\ calls' = Append(calls, request)
            /\ gstate' = "send"
            /\ UNCHANGED <<request, response, idx, ostate, seen>>
      [] gstate = "yield" ->
            Resume(response, idx + 1, "next", Undefined)
      [] OTHER ->
            /\ calls' = Append(calls, request)
            /\ gstate' = "send"
            /\ UNCHANGED <<request, response, idx, ostate, seen>>

\* generator.next() of the paginating generator
GeneratorNext ==
    CASE gstate = "start" ->
            /\ calls' = Append(calls, request)
            /\ gstate' = "send"
            /\ UNCHANGED <<request, response, idx, ostate, seen>>
      [] gstate = "yield" ->
            Resume(response, idx + 1, "next", Undefined)
      [] OTHER ->
            /\ Deliver("next", Undefined, Fulfilled(TRUE, Undefined))
            /\ UNCHANGED <<request, calls, gstate, response, idx>>

\* generator.throw(cause): the body has no handler around its yield
GeneratorThrow(call, arg, cause) ==
    /\ gstate' = "completed"
    /\ Deliver(call, arg, Rejected(cause))
    /\ UNCHANGED <<request, calls, response, idx>>

\* mutant: return answers the consumer without closing the generator
GeneratorReturnNotForwarded(call, arg, value) ==
    /\ Deliver(call, arg, Fulfilled(TRUE, value))
    /\ UNCHANGED <<request, calls, gstate, response, idx>>

\* generator.return(value)
GeneratorReturn(call, arg, value) ==
    /\ gstate' = "completed"
    /\ Deliver(call, arg, Fulfilled(TRUE, value))
    /\ UNCHANGED <<request, calls, response, idx>>

(***************************************************************************)
(* The classification of searchKeysByBestGuess.                             *)
(***************************************************************************)
IsFingerprintLength(n) ==
    n = FingerprintLenV3 \/ n = FingerprintLenV4 \/ n = FingerprintLenV6

\* mutant: the normalization also resets the exact flag
normalizedResetsExact(lk) ==
    IF HexMatches(lk.search)
    THEN [lk EXCEPT !.search = HexPayload(lk.search), !.exact = FALSE]
    ELSE lk

\* lookup.search = match[1], when the search matched
normalized(lk) ==
    IF HexMatches(lk.search) THEN [lk EXCEPT !.search = HexPayload(lk.search)] ELSE lk

\* the path taken for a lookup
pathOf(lk) ==
    IF ~HexMatches(lk.search) THEN "keyword"
    ELSE IF IsFingerprintLength(Len(normalized(lk).search)) THEN "fingerprint"
    ELSE IF Len(normalized(lk).search) = KeyIdLen THEN "id"
    ELSE "keyword"

\* the command the path builds from the lookup it is given
commandOf(path, lk) ==
    CASE path = "fingerprint" -> GetItemCommand(lk)
      [] path = "id" -> QueryCommand(lk)
      [] OTHER -> ScanCommand(lk)

\* the first next() of searchKeysByBestGuess, up to its first await
GuessStart ==
    /\ lookup' = normalized(lookup)
    /\ request' = commandOf(pathOf(lookup), lookup')
    /\ calls' = Append(calls, request')
    /\ IF pathOf(lookup) = "fingerprint"
       THEN ostate' = "fpSend" /\ UNCHANGED gstate
       ELSE ostate' = "delegate" /\ gstate' = "send"
    /\ UNCHANGED <<response, idx, seen>>

(***************************************************************************)
(* Initial states.                                                          *)
(***************************************************************************)
\* the lookups a request for `search` is parsed into: op and options as
\* the query string gave them, options absent when it gave none
Lookups(search, ops, optionLists) ==
    {[op |-> op, search |-> search, exact |-> exact] :
        op \in ops, exact \in BOOLEAN}
      \cup {[op |-> op, search |-> search, options |-> options, exact |-> exact] :
               op \in ops, options \in optionLists, exact \in BOOLEAN}

\* no AsyncResult call is under observation
NoRun == [fn |-> "none"]

AsyncParked == arun = NoRun /\ alog = <<>>

\* the entry point has not been called
NoEvent == [params |-> "none"]

NoReply == [statusCode |-> "none"]

EntryParked == event = NoEvent /\ reply = NoReply

\* the handler has returned nothing yet
NoResult == [pending |-> TRUE]

GetParked ==
    /\ hpc = "none"
    /\ key = Undefined
    /\ objects = <<>>
    /\ gets = <<>>
    /\ chunks = <<>>
    /\ rpos = 0
    /\ hres = NoResult

NoSource == [items |-> <<>>, term |-> ok(Undefined)]

IndexParked == source = NoSource /\ taken = 0 /\ indices = <<>>

Init ==
    /\ AsyncParked /\ GetParked /\ IndexParked /\ EntryParked
    /\ entry \in {"searchKeysById", "searchKeysByKeyword"}
    /\ raw \in DirectSearches
    /\ pages \in Scripts
    /\ lookup \in Lookups(raw, {"index"}, {})
    /\ given = lookup
    /\ request = IF entry = "searchKeysById" THEN QueryCommand(lookup) ELSE ScanCommand(lookup)
    /\ calls = <<>>
    /\ gstate = "start"
    /\ response = NoResponse
    /\ idx = 0
    /\ ostate = "none"
    /\ yielded = <<>>
    /\ last = NoCall
    /\ firstTerm = NoCall
    /\ pullTerm = NoCall
    /\ onlyNext = TRUE

InitGuess ==
    /\ AsyncParked /\ GetParked /\ IndexParked /\ EntryParked
    /\ entry = "searchKeysByBestGuess"
    /\ raw \in GuessSearches
    /\ pages \in Scripts
    /\ lookup \in Lookups(raw, {"get"}, {<<"mr">>})
    /\ given = lookup
    /\ request = NoRequest
    /\ calls = <<>>
    /\ gstate = "none"
    /\ response = NoResponse
    /\ idx = 0
    /\ ostate = "start"
    /\ yielded = <<>>
    /\ last = NoCall
    /\ firstTerm = NoCall
    /\ pullTerm = NoCall
    /\ onlyNext = TRUE

(***************************************************************************)
(* Actions.                                                                 *)
(***************************************************************************)
Idle == gstate # "send" /\ ostate # "fpSend"

\* causes a consumer may throw or close with
Causes == {NewError("Error", <<"c">>), JsString(<<"b", "o", "o", "m">>)}

\* the consumer pulls: next() of the wrapper, or of searchKeysByBestGuess
CallNext ==
    /\ Idle
    /\ CASE ostate = "none" ->
              GeneratorNext /\ UNCHANGED lookup
         [] ostate = "start" ->
              GuessStart
         [] ostate = "fpYield" ->
              /\ DeliverOuter(Fulfilled(TRUE, ok(Undefined)), "completed")
              /\ UNCHANGED <<lookup, request, calls, gstate, response, idx>>
         [] ostate = "delegate" ->
              GeneratorNext /\ UNCHANGED lookup
         [] OTHER ->
              /\ DeliverOuter(Fulfilled(TRUE, Undefined), "completed")
              /\ UNCHANGED <<lookup, request, calls, gstate, response, idx>>
    /\ UNCHANGED <<entry, raw, pages>>

\* throw(cause) of the wrapper
CallThrow ==
    /\ Idle
    /\ ostate = "none"
    /\ \E cause \in Causes : GeneratorThrow("throw", cause, cause)
    /\ UNCHANGED <<entry, raw, pages, lookup>>

\* mutant: an Err argument is not told apart, its absent value is returned
returnArgumentNoErrCheck(arg) ==
    IF "promise" \in DOMAIN arg THEN Rejected(arg.reason)
    ELSE Fulfilled(TRUE, Undefined)

\* what return(arg) hands to generator.return: the value of an Ok, or a
\* promise rejected with the reason of a rejected arg or the cause of an Err
returnArgument(arg) ==
    IF "promise" \in DOMAIN arg THEN Rejected(arg.reason)
    ELSE IF isErr(arg) THEN Rejected(arg.cause)
    ELSE Fulfilled(TRUE, arg.value)

\* arguments a consumer may close with: a Result or a promise that rejects
ReturnArgs ==
    {ok(Undefined)} \cup {err(c) : c \in Causes}
      \cup {[promise |-> "rejected", reason |-> c] : c \in Causes}

\* return(arg) of the wrapper
CallReturn ==
    /\ Idle
    /\ ostate = "none"
    /\ \E arg \in ReturnArgs :
          IF returnArgument(arg).state = "rejected"
          THEN GeneratorThrow("return", arg, returnArgument(arg).cause)
          ELSE GeneratorReturn("return", arg, returnArgument(arg).value)
    /\ UNCHANGED <<entry, raw, pages, lookup>>

\* the answer of the store to a page request
PageAnswer == pages[request.ExclusiveStartKey + 1]

\* the answer of the store to a point lookup
PointAnswer == pages[1]

\* mutant: a lookup that finds no item is reported as a failure
findKeyByFingerprintMissIsErr(answer) ==
    IF answer.fail THEN err(StoreError)
    ELSE IF answer.Items = <<>> THEN err(JsString(<<"m", "i", "s", "s">>))
    ELSE IF assertsPass(answer.Items[1]) THEN ok(extractKeyMetadata(answer.Items[1]))
    ELSE err(AssertionError)

\* findKeyByFingerprint: AsyncResult.run around the lookup and the decoding
findKeyByFingerprint(answer) ==
    IF answer.fail THEN err(StoreError)
    ELSE IF answer.Items = <<>> THEN ok(Undefined)
    ELSE IF assertsPass(answer.Items[1]) THEN ok(extractKeyMetadata(answer.Items[1]))
    ELSE err(AssertionError)

\* a pending DYNAMO.send settles
StoreAnswer ==
    /\ ~Idle
    /\ IF ostate = "fpSend"
       THEN LET result == findKeyByFingerprint(PointAnswer) IN
            /\ IF isErr(result)
               THEN DeliverOuter(Fulfilled(TRUE, result), "completed")
               ELSE IF isPresent(result)
                    THEN DeliverOuter(Fulfilled(FALSE, result.value), "fpYield")
                    ELSE DeliverOuter(Fulfilled(TRUE, ok(Undefined)), "completed")
            /\ UNCHANGED <<request, calls, gstate, response, idx>>
       ELSE IF PageAnswer.fail
            THEN /\ gstate' = "completed"
                 /\ Deliver("next", Undefined, Rejected(StoreError))
                 /\ UNCHANGED <<request, calls, response, idx>>
            ELSE Resume(PageAnswer, 1, "next", Undefined)
    /\ UNCHANGED <<entry, raw, pages, lookup>>

Next ==
    \/ CallNext /\ UNCHANGED handlerVars
    \/ CallThrow /\ UNCHANGED handlerVars
    \/ CallReturn /\ UNCHANGED handlerVars
    \/ StoreAnswer /\ UNCHANGED handlerVars

Spec == Init /\ [][Next]_vars

NextGuess ==
    \/ CallNext /\ UNCHANGED handlerVars
    \/ StoreAnswer /\ UNCHANGED handlerVars

SpecGuess == InitGuess /\ [][NextGuess]_vars

\* a consumer that keeps pulling a paginated sequence, and a store that
\* answers every request
SpecPulling == Init /\ [][NextGuess]_vars /\ WF_vars(NextGuess)

(***************************************************************************)
(* AsyncResult.from, AsyncResult.run and the functions AsyncResult.wrap     *)
(* makes, each observed from its call to the settlement of its promise.     *)
(***************************************************************************)
MaxRuns == 2

\* a promise fulfilled with a Result
Settled(result) == [state |-> "fulfilled", value |-> result]

\* what the underlying operation does: its promise fulfils with a value or
\* rejects with a cause, or the call of the function throws the cause
Fulfils(v) == [kind |-> "fulfil", with |-> v]

Rejects(c) == [kind |-> "reject", with |-> c]

Throws(c) == [kind |-> "throw", with |-> c]

AsyncValues == {Undefined, JsString(<<"v">>)}

AsyncCauses == {NewError("Error", <<"c">>), JsString(<<"b", "o", "o", "m">>), Undefined}

\* a promise handed to from() has been made: it fulfils or rejects
PromiseOutcomes ==
    {Fulfils(v) : v \in AsyncValues} \cup {Rejects(c) : c \in AsyncCauses}

\* a function called by run() or by wrapped() may also throw
CallOutcomes == PromiseOutcomes \cup {Throws(c) : c \in AsyncCauses}

\* try { value = await promise; return Result.ok(value) } catch (cause) { return Result.err(cause) }
AsyncResult_from(outcome) ==
    IF outcome.kind = "fulfil" THEN Settled(ok(outcome.with))
    ELSE Settled(err(outcome.with))

\* mutant: the body has no try block
AsyncResult_runNoCatch(outcome) ==
    IF outcome.kind = "fulfil" THEN Settled(ok(outcome.with))
    ELSE Rejected(outcome.with)

\* try { value = await action(); return Result.ok(value) } catch (cause) { return Result.err(cause) }
AsyncResult_run(outcome) ==
    IF outcome.kind = "fulfil" THEN Settled(ok(outcome.with))
    ELSE Settled(err(outcome.with))

\* wrapped(...args): try { value = await fn(...args); return Result.ok(value) } catch (cause) { return Result.err(cause) }
AsyncResult_wrap(outcome) ==
    IF outcome.kind = "fulfil" THEN Settled(ok(outcome.with))
    ELSE Settled(err(outcome.with))

settlementOf(fn, outcome) ==
    CASE fn = "from" -> AsyncResult_from(outcome)
      [] fn = "run" -> AsyncResult_run(outcome)
      [] OTHER -> AsyncResult_wrap(outcome)

\* the search is not under observation
SearchParked ==
    /\ entry = "none"
    /\ raw = <<>>
    /\ pages = <<>>
    /\ lookup = [op |-> "none"]
    /\ given = lookup
    /\ request = NoRequest
    /\ calls = <<>>
    /\ gstate = "none"
    /\ response = NoResponse
    /\ idx = 0
    /\ ostate = "none"
    /\ yielded = <<>>
    /\ last = NoCall
    /\ firstTerm = NoCall
    /\ pullTerm = NoCall
    /\ onlyNext = TRUE

searchVars ==
    <<entry, raw, pages, lookup, request, calls, gstate, response, idx, ostate,
      yielded, last, firstTerm, pullTerm, onlyNext, given>>

InitAsync ==
    SearchParked /\ AsyncParked /\ GetParked /\ IndexParked /\ EntryParked

\* a call of from(promise), run(action) or wrapped(...args): the body runs
\* up to its await; a throw of the called function is caught at once
AsyncCall ==
    /\ arun = NoRun
    /\ Len(alog) < MaxRuns
    /\ \E fn \in {"from", "run", "wrap"} :
          \E outcome \in IF fn = "from" THEN PromiseOutcomes ELSE CallOutcomes :
             IF outcome.kind = "throw"
             THEN /\ alog' = Append(alog, [fn |-> fn, outcome |-> outcome,
                                           settlement |-> settlementOf(fn, outcome)])
                  /\ UNCHANGED arun
             ELSE /\ arun' = [fn |-> fn, outcome |-> outcome]
                  /\ UNCHANGED alog
    /\ UNCHANGED <<searchVars, getVars, indexVars, entryVars>>

\* the awaited promise settles and the body runs to its return
AsyncSettle ==
    /\ arun # NoRun
    /\ alog' = Append(alog, [fn |-> arun.fn, outcome |-> arun.outcome,
                             settlement |-> settlementOf(arun.fn, arun.outcome)])
    /\ arun' = NoRun
    /\ UNCHANGED <<searchVars, getVars, indexVars, entryVars>>

NextAsync == AsyncCall \/ AsyncSettle

SpecAsync == InitAsync /\ [][NextAsync]_vars

(***************************************************************************)
(* Text and bytes of the formatters.                                        *)
(***************************************************************************)
\* the printable ASCII characters, in the order of their codes from 32 on
\* (the grave accent, code 96, is written by its name)
Printable ==
    <<
      " ", "!", "\"", "#", "$", "%", "&", "'", "(", ")", "*", "+",
      ",", "-", ".", "/", "0", "1", "2", "3", "4", "5", "6", "7",
      "8", "9", ":", ";", "<", "=", ">", "?", "@", "A", "B", "C",
      "D", "E", "F", "G", "H", "I", "J", "K", "L", "M", "N", "O",
      "P", "Q", "R", "S", "T", "U", "V", "W", "X", "Y", "Z", "[",
      "\\", "]", "^", "_", "grave", "a", "b", "c", "d", "e", "f", "g",
      "h", "i", "j", "k", "l", "m", "n", "o", "p", "q", "r", "s",
      "t", "u", "v", "w", "x", "y", "z", "{", "|", "}", "~" >>

\* the UTF-8 byte of an ASCII character
CharCode(c) ==
    IF c = "\n" THEN 10 ELSE 31 + (CHOOSE i \in 1..Len(Printable) : Printable[i] = c)

CodeChar(b) == IF b = 10 THEN "\n" ELSE Printable[b - 31]

\* Buffer.from(string), Buffer.concat(list) and buffer.toString()
BufferFrom(s) == [i \in 1..Len(s) |-> CharCode(s[i])]

BufferConcat(list) == Flatten(list)

BufferToString(buffer) == [i \in 1..Len(buffer) |-> CodeChar(buffer[i])]

\* the characters encodeURIComponent leaves as they are
Unreserved ==
    {Printable[i] : i \in 17..26} \cup {Printable[i] : i \in 34..59}
      \cup {Printable[i] : i \in 66..91}
      \cup {"-", "_", ".", "!", "~", "*", "'", "(", ")"}

UpperHexDigits ==
    <<"0", "1", "2", "3", "4", "5", "6", "7", "8", "9", "A", "B", "C", "D", "E", "F">>

\* %XX of a byte
PercentByte(b) == <<"%", UpperHexDigits[(b \div 16) + 1], UpperHexDigits[(b % 16) + 1]>>

\* encodeURIComponent of an ASCII string
encodeURIComponent(s) ==
    Flatten([i \in 1..Len(s) |->
                IF s[i] \in Unreserved THEN <<s[i]>> ELSE PercentByte(CharCode(s[i]))])

\* a JSON string literal: quotes around the text, quote and backslash escaped
JsonQuote(s) ==
    <<"\"">> \o Flatten([i \in 1..Len(s) |->
                            IF s[i] = "\"" \/ s[i] = "\\" THEN <<"\\", s[i]>>
                            ELSE IF s[i] = "\n" THEN <<"\\", "n">>
                            ELSE <<s[i]>>]) \o <<"\"">>

\* the members of a list, joined by commas
RECURSIVE JoinComma(_)
JoinComma(parts) ==
    IF parts = <<>> THEN <<>>
    ELSE IF Len(parts) = 1 THEN parts[1]
    ELSE parts[1] \o <<",">> \o JoinComma(Tail(parts))

\* the properties a KeyMetadata may have, in the order they are serialized,
\* with the text of their names
MetaFields == <<"primaryUserId", "keyLength", "id", "fingerprint">>

FieldText ==
    [primaryUserId |-> <<"p", "r", "i", "m", "a", "r", "y", "U", "s", "e", "r", "I", "d">>,
     keyLength |-> <<"k", "e", "y", "L", "e", "n", "g", "t", "h">>,
     id |-> <<"i", "d">>,
     fingerprint |-> <<"f", "i", "n", "g", "e", "r", "p", "r", "i", "n", "t">>]

\* the subsequence of s whose members satisfy the test
RECURSIVE SelectIn(_, _)
SelectIn(s, set) ==
    IF s = <<>> THEN <<>>
    ELSE IF Head(s) \in set THEN <<Head(s)>> \o SelectIn(Tail(s), set)
    ELSE SelectIn(Tail(s), set)

\* JSON.stringify of a KeyMetadata whose properties are strings
JsonOfMeta(keyMeta) ==
    LET present == SelectIn(MetaFields, DOMAIN keyMeta) IN
    <<"{">> \o JoinComma([i \in 1..Len(present) |->
                            JsonQuote(FieldText[present[i]]) \o <<":">>
                              \o JsonQuote(keyMeta[present[i]].val)])
          \o <<"}">>

\* JSON.stringify(indices): the entries in the order their names were added
JSONstringify(mapping) ==
    <<"{">> \o JoinComma([i \in 1..Len(mapping) |->
                            JsonQuote(mapping[i].name) \o <<":">>
                              \o JsonOfMeta(mapping[i].value)])
          \o <<"}">>

\* mutant: a name already present keeps its value
setPropertyIfAbsent(mapping, name, value) ==
    IF \E i \in 1..Len(mapping) : mapping[i].name = name
    THEN mapping
    ELSE Append(mapping, [name |-> name, value |-> value])

\* indices[name] = value: a name already present keeps its place
setProperty(mapping, name, value) ==
    IF \E i \in 1..Len(mapping) : mapping[i].name = name
    THEN [i \in 1..Len(mapping) |->
             IF mapping[i].name = name THEN [name |-> name, value |-> value]
             ELSE mapping[i]]
    ELSE Append(mapping, [name |-> name, value |-> value])

(***************************************************************************)
(* The get handler: formatKeys(generateKeyStreams(searchKeysByBestGuess)).  *)
(***************************************************************************)
ObjectError == NewError("NoSuchKey", <<"O">>)

ReadError == NewError("Error", <<"R">>)

\* the bytes stored for a key name, as the one chunk its stream gives
KeyData(name) == BufferFrom(<<"#">> \o name.val \o <<"\n">>)

\* what S3.send(GetObjectCommand) gives: a rejection, a response without
\* Body, or a Body that streams the key's data and then ends or fails
GetFails == [get |-> "fail"]

NoBody == [get |-> "nobody"]

Body(name, fail) == [get |-> "stream", data |-> <<KeyData(name)>>, fail |-> fail]

\* the names under which the keys of the table are stored
KeyNames ==
    {extractKeyMetadata(it)["fingerprint"] : it \in {i \in Table : assertsPass(i)}}

ObjectStores ==
    {os \in [KeyNames -> {GetFails, NoBody} \cup
                            {[get |-> "stream", data |-> <<d>>, fail |-> f] :
                                d \in {KeyData(n) : n \in KeyNames}, f \in BOOLEAN}] :
        \A n \in KeyNames : os[n].get = "stream" => os[n].data = <<KeyData(n)>>}

GetObjectCommand(keyMeta) == [command |-> "GetObject", Key |-> keyMeta["fingerprint"]]

\* getKeyDataStream: AsyncResult.run around S3.send, giving response.Body
getKeyDataStream(object) ==
    CASE object.get = "fail" -> err(ObjectError)
      [] object.get = "nobody" -> ok(Undefined)
      [] OTHER -> ok(object)

\* the structured result formatKeys builds
KeysResult(body) ==
    [statusCode |-> "OK", headers |-> [ContentType |-> "application/pgp-keys"],
     body |-> body]

\* formatKeys, after its loop: the termination of the sequence decides
formatKeysEnd(value, read) ==
    IF isOk(value) THEN ok(KeysResult(BufferToString(BufferConcat(read)))) ELSE value

\* mutant: the catch block moves on to the next stream
streamEndedSkipsFailure(stream, result) ==
    [hpc |-> "pull", hres |-> result]

\* formatKeys, when its for-await over a stream is over: a read failure is
\* returned as Err, else the sequence is pulled again
streamEnded(stream, result) ==
    IF stream.fail THEN [hpc |-> "done", hres |-> err(ReadError)]
    ELSE [hpc |-> "pull", hres |-> result]

GetSearches ==
    {Repeat(WordPattern, 3), Repeat(HexPattern, KeyIdLen),
     Marker \o Repeat(HexPattern, FingerprintLenV4)}

InitGet ==
    /\ AsyncParked /\ IndexParked /\ EntryParked
    /\ entry = "searchKeysByBestGuess"
    /\ raw \in GetSearches
    /\ pages \in Scripts
    /\ lookup \in {l \in Lookups(raw, {"get"}, {}) : ~l.exact}
    /\ given = lookup
    /\ request = NoRequest
    /\ calls = <<>>
    /\ gstate = "none"
    /\ response = NoResponse
    /\ idx = 0
    /\ ostate = "start"
    /\ yielded = <<>>
    /\ last = NoCall
    /\ firstTerm = NoCall
    /\ pullTerm = NoCall
    /\ onlyNext = TRUE
    /\ hpc = "pull"
    /\ key = Undefined
    /\ objects \in ObjectStores
    /\ gets = <<>>
    /\ chunks = <<>>
    /\ rpos = 0
    /\ hres = NoResult

\* what generateKeyStreams and formatKeys do with the answer of
\* keyMetas.next(): nothing while the store is awaited; an item is looked up
\* in the object store; a termination is returned through both
AfterPull ==
    IF gstate' = "send" \/ ostate' = "fpSend"
    THEN UNCHANGED getVars
    ELSE IF IsYield(last'.result)
         THEN /\ hpc' = "getObject"
              /\ key' = last'.result.value
              /\ gets' = Append(gets, GetObjectCommand(key'))
              /\ UNCHANGED <<objects, chunks, rpos, hres>>
         ELSE /\ hpc' = "done"
              /\ hres' = formatKeysEnd(last'.result.value, chunks)
              /\ UNCHANGED <<key, objects, gets, chunks, rpos>>

\* generateKeyStreams pulls keyMetas
GetPull ==
    /\ hpc = "pull"
    /\ CallNext
    /\ AfterPull
    /\ UNCHANGED <<given, asyncVars, indexVars, entryVars>>

\* the store answers the search while generateKeyStreams awaits its pull
GetStoreAnswer ==
    /\ hpc = "pull"
    /\ StoreAnswer
    /\ AfterPull
    /\ UNCHANGED <<given, asyncVars, indexVars, entryVars>>

\* S3.send settles: a present Body is yielded to formatKeys, which starts
\* reading it; otherwise generateKeyStreams pulls keyMetas again
GetObjectAnswer ==
    /\ hpc = "getObject"
    /\ LET streamResult == getKeyDataStream(objects[key["fingerprint"]]) IN
          IF isPresent(streamResult)
          THEN hpc' = "read" /\ rpos' = 0
          ELSE hpc' = "pull" /\ UNCHANGED rpos
    /\ UNCHANGED <<key, objects, gets, chunks, hres>>
    /\ UNCHANGED <<searchVars, asyncVars, indexVars, entryVars>>

\* for await (const nextChunk of keyStream): one chunk is pushed
ReadChunk ==
    /\ hpc = "read"
    /\ rpos < Len(objects[key["fingerprint"]].data)
    /\ chunks' = Append(chunks, objects[key["fingerprint"]].data[rpos + 1])
    /\ rpos' = rpos + 1
    /\ UNCHANGED <<hpc, key, objects, gets, hres>>
    /\ UNCHANGED <<searchVars, asyncVars, indexVars, entryVars>>

\* mutant: the stream is left before its chunks have been read
ReadEndEarly ==
    /\ hpc = "read"
    /\ hpc' = streamEnded(objects[key["fingerprint"]], hres).hpc
    /\ hres' = streamEnded(objects[key["fingerprint"]], hres).hres
    /\ UNCHANGED <<key, objects, gets, chunks, rpos>>
    /\ UNCHANGED <<searchVars, asyncVars, indexVars, entryVars>>

\* the stream ends or fails
ReadEnd ==
    /\ hpc = "read"
    /\ rpos = Len(objects[key["fingerprint"]].data)
    /\ hpc' = streamEnded(objects[key["fingerprint"]], hres).hpc
    /\ hres' = streamEnded(objects[key["fingerprint"]], hres).hres
    /\ UNCHANGED <<key, objects, gets, chunks, rpos>>
    /\ UNCHANGED <<searchVars, asyncVars, indexVars, entryVars>>

NextGet == GetPull \/ GetStoreAnswer \/ GetObjectAnswer \/ ReadChunk \/ ReadEnd

SpecGet == InitGet /\ [][NextGet]_vars

(***************************************************************************)
(* The hget handler: retrieval by an exact fingerprint.                     *)
(***************************************************************************)
BadLookupError(message) == NewError("BadLookupError", message)

MissingSearch == <<"m", "i", "s", "s", "i", "n", "g">>

InvalidFormat == <<"f", "o", "r", "m", "a", "t", " ">>

InvalidLength == <<"l", "e", "n", "g", "t", "h", " ">>

\* mutant: any payload that can hold a key id is looked up
hgetLengthAtLeastKeyId(search) == Len(search) >= KeyIdLen

\* !(length !== 32 && length !== 40 && length !== 64)
hgetLengthOk(search) ==
    Len(search) \in {FingerprintLenV3, FingerprintLenV4, FingerprintLenV6}

HgetSearches ==
    {Repeat(WordPattern, 3), Repeat(WordPattern, FingerprintLenV4),
     Repeat(HexPattern, KeyIdLen), Marker \o Repeat(HexPattern, KeyIdLen),
     Repeat(HexPattern, FingerprintLenV3), Repeat(HexPattern, FingerprintLenV4),
     Repeat(HexPattern, FingerprintLenV6), Repeat(HexPattern, FingerprintLenV4 + 1),
     Marker \o Repeat(HexPattern, FingerprintLenV4),
     Marker \o Repeat(HexPattern, FingerprintLenV4 - 2)}

\* a lookup of the entry point for hget; search is absent when the query
\* string had none
HgetLookups ==
    {[op |-> "hget", exact |-> FALSE]}
      \cup UNION {{l \in Lookups(s, {"hget"}, {}) : ~l.exact} : s \in HgetSearches}

InitHget ==
    /\ AsyncParked /\ IndexParked /\ EntryParked
    /\ entry = "hget"
    /\ lookup \in HgetLookups
    /\ raw = IF "search" \in DOMAIN lookup THEN lookup.search ELSE <<>>
    /\ pages \in {s \in Scripts : Len(s) = 1}
    /\ given = lookup
    /\ request = NoRequest
    /\ calls = <<>>
    /\ gstate = "none"
    /\ response = NoResponse
    /\ idx = 0
    /\ ostate = "none"
    /\ yielded = <<>>
    /\ last = NoCall
    /\ firstTerm = NoCall
    /\ pullTerm = NoCall
    /\ onlyNext = TRUE
    /\ hpc = "start"
    /\ key = Undefined
    /\ objects \in ObjectStores
    /\ gets = <<>>
    /\ chunks = <<>>
    /\ rpos = 0
    /\ hres = NoResult

hgetFixed ==
    <<entry, raw, pages, given, gstate, response, idx, ostate, yielded, last,
      firstTerm, pullTerm, onlyNext, asyncVars, indexVars, entryVars>>

\* the handler returns a BadLookupError
HgetRefuse(message) ==
    /\ hpc' = "done"
    /\ hres' = err(BadLookupError(message))
    /\ UNCHANGED <<request, calls, key, objects, gets, chunks, rpos>>

\* the handler up to its await of findKeyByFingerprint: the three checks,
\* the search replaced by the payload of the match, the point lookup sent
HgetStart ==
    /\ hpc = "start"
    /\ IF "search" \notin DOMAIN lookup
       THEN HgetRefuse(MissingSearch) /\ UNCHANGED lookup
       ELSE IF ~HexMatches(lookup.search)
            THEN HgetRefuse(InvalidFormat \o lookup.search) /\ UNCHANGED lookup
            ELSE /\ lookup' = [lookup EXCEPT !.search = HexPayload(lookup.search)]
                 /\ IF ~hgetLengthOk(lookup'.search)
                    THEN HgetRefuse(InvalidLength \o lookup'.search)
                    ELSE /\ request' = GetItemCommand(lookup')
                         /\ calls' = Append(calls, request')
                         /\ hpc' = "find"
                         /\ UNCHANGED <<key, objects, gets, chunks, rpos, hres>>
    /\ UNCHANGED hgetFixed

\* DYNAMO.send settles: an Err is returned as it is; a found key is yielded
\* by the inline generator and looked up in the object store; with no key
\* the generator returns at once and formatKeys has nothing to read
HgetStoreAnswer ==
    /\ hpc = "find"
    /\ LET keyMetaResult == findKeyByFingerprint(PointAnswer) IN
          IF isErr(keyMetaResult)
          THEN /\ hpc' = "done"
               /\ hres' = keyMetaResult
               /\ UNCHANGED <<key, objects, gets, chunks, rpos>>
          ELSE IF keyMetaResult.value # Undefined
               THEN /\ hpc' = "getObject"
                    /\ key' = keyMetaResult.value
                    /\ gets' = Append(gets, GetObjectCommand(key'))
                    /\ UNCHANGED <<objects, chunks, rpos, hres>>
               ELSE /\ hpc' = "done"
                    /\ hres' = formatKeysEnd(ok(Undefined), chunks)
                    /\ UNCHANGED <<key, objects, gets, chunks, rpos>>
    /\ UNCHANGED <<lookup, request, calls>>
    /\ UNCHANGED hgetFixed

\* generateKeyStreams pulls the inline generator again: it returns Result.ok()
HgetPull ==
    /\ hpc = "pull"
    /\ hpc' = "done"
    /\ hres' = formatKeysEnd(ok(Undefined), chunks)
    /\ UNCHANGED <<key, objects, gets, chunks, rpos>>
    /\ UNCHANGED <<lookup, request, calls>>
    /\ UNCHANGED hgetFixed

NextHget ==
    HgetStart \/ HgetStoreAnswer \/ GetObjectAnswer \/ ReadChunk \/ ReadEnd
      \/ HgetPull

SpecHget == InitHget /\ [][NextHget]_vars

(***************************************************************************)
(* formatIndices over a sequence of KeyMetadata.                            *)
(***************************************************************************)
MaxRecords == 3

\* a later record of the key of Item1, with another user id
Item1Later ==
    [Item1 EXCEPT !.primaryUserId = AttrS(<<"a", " ", "<", "b", "@", "c", ">">>)]

IndexMetas == {extractKeyMetadata(it) : it \in {Item1, Item2, Item1Later}}

\* the sequences formatIndices may be given: items, then Ok or Err
Sources ==
    {[items |-> s, term |-> tm] :
        s \in UNION {[1..n -> IndexMetas] : n \in 0..MaxRecords},
        tm \in {ok(Undefined), err(StoreError)}}

OptionLists ==
    {<<>>, <<"mr">>, <<"json">>, <<"json", "mr">>, <<"x", "json">>, <<"x">>}

includes(list, x) == \E i \in 1..Len(list) : list[i] = x

\* mutant: a request for json is honoured whatever else is asked
isMachineJsonWins(lk) ==
    IF "options" \notin DOMAIN lk THEN TRUE
    ELSE ~includes(lk.options, "json")

\* options == undefined || options.includes('mr') || !options.includes('json')
isMachine(lk) ==
    IF "options" \notin DOMAIN lk THEN TRUE
    ELSE includes(lk.options, "mr") \/ ~includes(lk.options, "json")

IndexResult(machine, body) ==
    [statusCode |-> "OK",
     headers |-> [ContentType |-> IF machine THEN "text/plain" ELSE "application/json"],
     body |-> body]

\* mutant: the user id is written as it is
machineLineRawUid(keyMeta) ==
    <<"p", "u", "b", ":">> \o keyMeta["fingerprint"].val \o <<"\n">>
      \o <<"u", "i", "d", ":">> \o keyMeta["primaryUserId"].val \o <<"\n">>

\* `pub:${keyMeta.fingerprint}\nuid:${encodeURIComponent(keyMeta.primaryUserId)}\n`
machineLine(keyMeta) ==
    <<"p", "u", "b", ":">> \o keyMeta["fingerprint"].val \o <<"\n">>
      \o <<"u", "i", "d", ":">> \o encodeURIComponent(keyMeta["primaryUserId"].val)
      \o <<"\n">>

\* mutant: what was collected is returned whatever the termination
machineResultPartial(term, collected) ==
    ok(BufferToString(BufferConcat(collected)))

\* formatMachineIndices, after its loop
machineResult(term, collected) ==
    IF isErr(term) THEN term ELSE ok(BufferToString(BufferConcat(collected)))

\* formatJsonIndices, after its loop
jsonResult(term, mapping) ==
    IF isErr(term) THEN term ELSE ok(JSONstringify(mapping))

\* formatIndices, after the rendering
formatIndicesEnd(lk, formatResult) ==
    IF isErr(formatResult) THEN formatResult
    ELSE ok(IndexResult(isMachine(lk), formatResult.value))

InitIndices ==
    /\ AsyncParked /\ EntryParked
    /\ entry = "none"
    /\ raw = Repeat(WordPattern, 3)
    /\ pages = <<>>
    /\ lookup \in {l \in Lookups(raw, {"index"}, OptionLists) : ~l.exact}
    /\ given = lookup
    /\ request = NoRequest
    /\ calls = <<>>
    /\ gstate = "none"
    /\ response = NoResponse
    /\ idx = 0
    /\ ostate = "none"
    /\ yielded = <<>>
    /\ last = NoCall
    /\ firstTerm = NoCall
    /\ pullTerm = NoCall
    /\ onlyNext = TRUE
    /\ hpc = "pull"
    /\ key = Undefined
    /\ objects = <<>>
    /\ gets = <<>>
    /\ chunks = <<>>
    /\ rpos = 0
    /\ hres = NoResult
    /\ source \in Sources
    /\ taken = 0
    /\ indices = <<>>

\* what a step of formatIndices leaves alone
indexFrame ==
    <<searchVars, asyncVars, key, objects, gets, rpos, source, entryVars>>

\* formatMachineIndices: keyMetas.next() gives an item, its line is pushed
MachineNext ==
    /\ hpc = "pull" /\ isMachine(lookup)
    /\ taken < Len(source.items)
    /\ chunks' = Append(chunks, BufferFrom(machineLine(source.items[taken + 1])))
    /\ taken' = taken + 1
    /\ UNCHANGED <<hpc, hres, indices, indexFrame>>

\* formatMachineIndices: keyMetas.next() reports done
MachineDone ==
    /\ hpc = "pull" /\ isMachine(lookup)
    /\ taken = Len(source.items)
    /\ hres' = formatIndicesEnd(lookup, machineResult(source.term, chunks))
    /\ hpc' = "done"
    /\ UNCHANGED <<chunks, taken, indices, indexFrame>>

\* formatJsonIndices: keyMetas.next() gives an item, it is put in indices
JsonNext ==
    /\ hpc = "pull" /\ ~isMachine(lookup)
    /\ taken < Len(source.items)
    /\ LET keyMeta == source.items[taken + 1] IN
          indices' = setProperty(indices, keyMeta["fingerprint"].val, keyMeta)
    /\ taken' = taken + 1
    /\ UNCHANGED <<hpc, hres, chunks, indexFrame>>

\* formatJsonIndices: keyMetas.next() reports done
JsonDone ==
    /\ hpc = "pull" /\ ~isMachine(lookup)
    /\ taken = Len(source.items)
    /\ hres' = formatIndicesEnd(lookup, jsonResult(source.term, indices))
    /\ hpc' = "done"
    /\ UNCHANGED <<chunks, taken, indices, indexFrame>>

NextIndices == MachineNext \/ MachineDone \/ JsonNext \/ JsonDone

SpecIndices == InitIndices /\ [][NextIndices]_vars

(***************************************************************************)
(* The entry point lookup: the request is checked, the handler of the      *)
(* operation is awaited, its Result becomes the response.                   *)
(***************************************************************************)
UnknownOperationError(message) == NewError("UnknownOperationError", message)

EmptyLookupError(message) == NewError("EmptyLookupError", message)

\* s.trim(): the spaces at both ends removed
RECURSIVE trim(_)
trim(s) ==
    IF s = <<>> THEN s
    ELSE IF Head(s) = " " THEN trim(Tail(s))
    ELSE IF s[Len(s)] = " " THEN trim(SubSeq(s, 1, Len(s) - 1))
    ELSE s

\* s.split(','): the pieces between the commas, one piece when there is none
RECURSIVE split(_)
split(s) ==
    IF \E i \in 1..Len(s) : s[i] = ","
    THEN LET at == CHOOSE i \in 1..Len(s) :
                      s[i] = "," /\ \A j \in 1..(i - 1) : s[j] # ","
         IN  <<SubSeq(s, 1, at - 1)>> \o split(SubSeq(s, at + 1, Len(s)))
    ELSE <<s>>

\* an option as the formatters compare it
optionName(text) ==
    IF text = <<"m", "r">> THEN "mr"
    ELSE IF text = <<"j", "s", "o", "n">> THEN "json"
    ELSE "x"

IndexName == <<"i", "n", "d", "e", "x">>

VindexName == <<"v", "i", "n", "d", "e", "x">>

GetName == <<"g", "e", "t">>

HgetName == <<"h", "g", "e", "t">>

\* LookupHandlers: the registered operations; vindex is the index handler
handlers ==
    [name \in {IndexName, VindexName, GetName, HgetName} |->
        IF name \in {IndexName, VindexName} THEN "index"
        ELSE IF name = GetName THEN "get" ELSE "hget"]

getOperation(op) == IF op \in DOMAIN handlers THEN handlers[op] ELSE "undefined"

\* HTTP status of an error, by its class
statusOf(error) ==
    IF error.name = "BadLookupError" THEN "BadRequest"
    ELSE IF error.name = "EmptyLookupError" THEN "NotFound"
    ELSE IF error.name = "UnknownOperationError" THEN "NotImplemented"
    ELSE "InternalServerError"

\* JSON.stringify(error, Object.getOwnPropertyNames(error)); the stack, whose
\* text is the engine's, is left out
formatError(error) ==
    [statusCode |-> statusOf(error),
     body |-> <<"{">> \o JsonQuote(<<"m", "e", "s", "s", "a", "g", "e">>) \o <<":">>
                \o JsonQuote(error.message) \o <<"}">>]

MissingParameters == <<"m", "i", "s", "s", "i", "n", "g", " ", "p", "a", "r", "a", "m", "e", "t", "e", "r", "s">>

UnsupportedVersion == <<"u", "n", "s", "u", "p", "p", "o", "r", "t", "e", "d", " ", "v", "e", "r", "s", "i", "o", "n", " ">>

MissingOperation == <<"m", "i", "s", "s", "i", "n", "g", " ", "o", "p", "e", "r", "a", "t", "i", "o", "n">>

UnknownOperation == <<"u", "n", "k", "n", "o", "w", "n", " ", "o", "p", "e", "r", "a", "t", "i", "o", "n", " ">>

NoKeysMatching == <<"n", "o", " ", "k", "e", "y", "s", " ", "m", "a", "t", "c", "h", "i", "n", "g", " ">>

\* const lookup: Lookup = { op, search, options, exact: exact === 'on' };
\* a field whose parameter is absent is undefined
lookupOf(q, op) ==
    LET exact == q.exact.type = "string" /\ q.exact.val = <<"o", "n">>
        options == [i \in 1..Len(split(q.options.val)) |->
                       optionName(split(q.options.val)[i])]
    IN  IF q.search.type = "string"
        THEN IF q.options.type = "string"
             THEN [op |-> op, search |-> q.search.val, options |-> options,
                   exact |-> exact]
             ELSE [op |-> op, search |-> q.search.val, exact |-> exact]
        ELSE IF q.options.type = "string"
             THEN [op |-> op, options |-> options, exact |-> exact]
             ELSE [op |-> op, exact |-> exact]

\* the checks of the entry point: the response of a refused request, or the
\* handler to call and the lookup to call it with
lookupChecks(e) ==
    IF e.params = "absent"
    THEN [refused |-> TRUE, error |-> BadLookupError(MissingParameters)]
    ELSE IF e.v.type = "string" /\ e.v.val # <<"1">>
    THEN [refused |-> TRUE, error |-> BadLookupError(UnsupportedVersion \o e.v.val)]
    ELSE IF e.op.type # "string" \/ Len(trim(e.op.val)) = 0
    THEN [refused |-> TRUE, error |-> BadLookupError(MissingOperation)]
    ELSE IF getOperation(trim(e.op.val)) = "undefined"
    THEN [refused |-> TRUE,
          error |-> UnknownOperationError(UnknownOperation \o trim(e.op.val))]
    ELSE [refused |-> FALSE, handler |-> getOperation(trim(e.op.val)),
          lookup |-> lookupOf(e, trim(e.op.val))]

\* the handler of the request, "undefined" when the entry point refuses it
handlerOf(e) ==
    IF lookupChecks(e).refused THEN "undefined" ELSE lookupChecks(e).handler

\* the tail of the entry point, once the handler has returned
lookupRespond(lk, result) ==
    IF isErr(result) THEN formatError(result.cause)
    ELSE IF Len(result.value.body) = 0
    THEN formatError(EmptyLookupError(NoKeysMatching \o lk.search))
    ELSE result.value

Query(v, op, search, options, exact) ==
    [params |-> "present", v |-> v, op |-> op, search |-> search,
     options |-> options, exact |-> exact]

OptionTexts ==
    {Undefined, JsString(<<"m", "r">>), JsString(<<"j", "s", "o", "n">>), JsString(<<"j", "s", "o", "n", ",", "m", "r">>),
     JsString(<<"x", ",", "j", "s", "o", "n">>)}

RefusedEvents ==
    {[params |-> "absent"]}
      \cup {Query(JsString(<<"2">>), JsString(GetName),
                  JsString(Repeat(WordPattern, 3)), Undefined, Undefined)}
      \cup {Query(Undefined, op, JsString(Repeat(WordPattern, 3)), Undefined,
                  Undefined) :
               op \in {Undefined, JsString(<<>>), JsString(<<" ">>),
                       JsString(<<"x">>)}}

IndexEvents ==
    {Query(v, JsString(op), s, o, Undefined) :
        v \in {Undefined, JsString(<<"1">>)}, op \in {IndexName, VindexName},
        s \in {Undefined, JsString(Repeat(WordPattern, 3))}, o \in OptionTexts}

GetEvents ==
    {Query(Undefined, JsString(<<" ">> \o GetName \o <<" ">>), s, o, e) :
        s \in {Undefined} \cup {JsString(x) : x \in GetSearches},
        o \in {Undefined, JsString(<<"j", "s", "o", "n">>)},
        e \in {Undefined, JsString(<<"o", "n">>)}}

HgetEvents ==
    {Query(Undefined, JsString(HgetName), s, o, Undefined) :
        s \in {Undefined} \cup
                {JsString(x) : x \in {Repeat(WordPattern, 3),
                                      Repeat(HexPattern, KeyIdLen),
                                      Repeat(HexPattern, FingerprintLenV3),
                                      Marker \o Repeat(HexPattern, FingerprintLenV4)}},
        o \in {Undefined, JsString(<<"j", "s", "o", "n">>)}}

LookupEvents == RefusedEvents \cup IndexEvents \cup GetEvents \cup HgetEvents

InitLookup ==
    /\ AsyncParked
    /\ event \in LookupEvents
    /\ reply = NoReply
    /\ entry = "none"
    /\ raw = IF event.params = "present" /\ event.search.type = "string"
             THEN event.search.val ELSE <<>>
    /\ pages \in IF handlerOf(event) \in {"get", "hget"}
                 THEN {s \in Scripts : Len(s) = 1} ELSE {<<>>}
    /\ lookup = [op |-> "none"]
    /\ given = lookup
    /\ request = NoRequest
    /\ calls = <<>>
    /\ gstate = "none"
    /\ response = NoResponse
    /\ idx = 0
    /\ ostate = "none"
    /\ yielded = <<>>
    /\ last = NoCall
    /\ firstTerm = NoCall
    /\ pullTerm = NoCall
    /\ onlyNext = TRUE
    /\ hpc = "event"
    /\ key = Undefined
    /\ objects \in IF handlerOf(event) \in {"get", "hget"}
                   THEN ObjectStores ELSE {<<>>}
    /\ gets = <<>>
    /\ chunks = <<>>
    /\ rpos = 0
    /\ hres = NoResult
    /\ source \in IF handlerOf(event) = "index" THEN Sources ELSE {NoSource}
    /\ taken = 0
    /\ indices = <<>>

lookupFixed ==
    <<raw, pages, request, calls, gstate, response, idx, yielded, last,
      firstTerm, pullTerm, onlyNext, asyncVars, indexVars, key, objects, gets,
      chunks, rpos, event>>

\* lookup(event) up to the first await of the handler it calls: a refused
\* request is answered at once; index, vindex and get return an Err for a
\* lookup without search, else they call searchKeysByBestGuess and pull
LookupStart ==
    /\ hpc = "event"
    /\ LET checks == lookupChecks(event) IN
          IF checks.refused
          THEN /\ reply' = formatError(checks.error)
               /\ hpc' = "responded"
               /\ UNCHANGED <<lookup, given, entry, ostate, hres>>
          ELSE /\ lookup' = checks.lookup
               /\ given' = checks.lookup
               /\ UNCHANGED reply
               /\ IF checks.handler = "hget"
                  THEN /\ hpc' = "start"
                       /\ entry' = "hget"
                       /\ UNCHANGED <<ostate, hres>>
                  ELSE IF "search" \notin DOMAIN checks.lookup
                  THEN /\ hpc' = "done"
                       /\ hres' = err(BadLookupError(MissingSearch))
                       /\ UNCHANGED <<entry, ostate>>
                  ELSE IF checks.handler = "get"
                  THEN /\ hpc' = "pull"
                       /\ entry' = "searchKeysByBestGuess"
                       /\ ostate' = "start"
                       /\ UNCHANGED hres
                  ELSE /\ hpc' = "pull"
                       /\ UNCHANGED <<entry, ostate, hres>>
    /\ UNCHANGED lookupFixed

\* mutant: every Ok of the handler is the response
LookupRespondAnyBody ==
    /\ hpc = "done"
    /\ reply' = IF isErr(hres) THEN formatError(hres.cause) ELSE hres.value
    /\ hpc' = "responded"
    /\ UNCHANGED <<lookup, given, entry, ostate, hres, lookupFixed>>

\* the handler has returned: its Err, or an empty body, is an error response
LookupRespond ==
    /\ hpc = "done"
    /\ reply' = lookupRespond(lookup, hres)
    /\ hpc' = "responded"
    /\ UNCHANGED <<lookup, given, entry, ostate, hres, lookupFixed>>

\* the handler the entry point awaits decides which steps can be taken
Awaiting(handler) == handlerOf(event) = handler

NextLookup ==
    \/ LookupStart
    \/ Awaiting("index") /\ MachineNext
    \/ Awaiting("index") /\ MachineDone
    \/ Awaiting("index") /\ JsonNext
    \/ Awaiting("index") /\ JsonDone
    \/ Awaiting("get") /\ GetPull
    \/ Awaiting("get") /\ GetStoreAnswer
    \/ Awaiting("hget") /\ HgetStart
    \/ Awaiting("hget") /\ HgetStoreAnswer
    \/ Awaiting("hget") /\ HgetPull
    \/ GetObjectAnswer
    \/ ReadChunk
    \/ ReadEnd
    \/ LookupRespond

SpecLookup == InitLookup /\ [][NextLookup]_vars

(***************************************************************************)
(* Result: the constructors and the discriminants applied to the values a  *)
(* caller can pass.  alog records each call with its argument and what the *)
(* call produced.                                                           *)
(***************************************************************************)
Boom == <<"b", "o", "o", "m">>

\* { message: 404, code: "E" }
ObjectWithNumberMessage ==
    JsObject([message |-> JsNumber(404), code |-> JsString(<<"E">>)])

\* { message: "boom", code: "E" }
ObjectWithStringMessage ==
    JsObject([message |-> JsString(Boom), code |-> JsString(<<"E">>)])

\* { value: 1 }
ObjectWithValue == JsObject([value |-> JsNumber(1)])

\* { message: Object.create(null) }
ObjectWithBareMessage == JsObject([message |-> BareObject])

\* ok() is ok(undefined): the parameter is optional
OkArguments ==
    {Undefined, Null, JsString(Boom), JsNumber(0), ObjectWithValue,
     JsObject([cause |-> JsString(Boom)])}

ErrArguments ==
    {Undefined, Null, JsString(Boom), JsString(<<>>), JsNumber(404),
     JsBoolean(FALSE), NewError("TypeError", Boom), ObjectWithValue,
     ObjectWithNumberMessage, ObjectWithStringMessage, ObjectWithBareMessage}

InitResult ==
    SearchParked /\ AsyncParked /\ GetParked /\ IndexParked /\ EntryParked

\* a call of Result.ok(value)
ResultOk ==
    /\ Len(alog) < MaxRuns
    /\ \E v \in OkArguments :
          alog' = Append(alog, [fn |-> "ok", arg |-> v, result |-> ok(v)])
    /\ UNCHANGED <<arun, searchVars, getVars, indexVars, entryVars>>

\* a call of Result.err(cause)
ResultErr ==
    /\ Len(alog) < MaxRuns
    /\ \E c \in ErrArguments :
          alog' = Append(alog, [fn |-> "err", arg |-> c, result |-> err(c)])
    /\ UNCHANGED <<arun, searchVars, getVars, indexVars, entryVars>>

NextResult == ResultOk \/ ResultErr

SpecResult == InitResult /\ [][NextResult]_vars

(***************************************************************************)
(* Properties.                                                              *)
(***************************************************************************)
IsPrefix(s, u) == Len(s) <= Len(u) /\ \A i \in 1..Len(s) : s[i] = u[i]

\* the items of the pages 1..n of the script, in order
ItemsUpTo(n) == Flatten([k \in 1..n |-> pages[k].Items])

AllItems == ItemsUpTo(Len(pages))

NoStoreFailure == \A k \in 1..Len(pages) : ~pages[k].fail

\* every item carries the three required string attributes
AllWellFormed ==
    \A i \in 1..Len(AllItems) :
        {"pgpKeyId", "pgpFingerprintUpper", "primaryUserId"} \subseteq DOMAIN AllItems[i]

\* the yielded record y is the record of the store item it
IsRecordOf(y, it) ==
    /\ y["fingerprint"].val = it["pgpFingerprintUpper"].val \o it["pgpKeyId"].val
    /\ y["primaryUserId"].val = it["primaryUserId"].val

\* the consumer has received exactly the records of items, in order
ReceivedExactly(items) ==
    /\ Len(yielded) = Len(items)
    /\ \A i \in 1..Len(items) : IsRecordOf(yielded[i], items[i])

\* C1: on the id path and the keyword path, when the store answers with the
\* pages P1..Pn of well-formed records and the consumer only pulls, what it
\* has received is always a prefix of the records of P1..Pn in page and
\* record order, and at the termination it is all of them and the
\* termination is Ok.
C1_PagesInOrderThenOk ==
    (onlyNext /\ NoStoreFailure /\ AllWellFormed) =>
        /\ Len(yielded) <= Len(AllItems)
        /\ \A i \in 1..Len(yielded) : IsRecordOf(yielded[i], AllItems[i])
        /\ Terminated => /\ ReceivedExactly(AllItems)
                         /\ firstTerm.value = ok(Undefined)

C1_Witness ==
    /\ onlyNext /\ NoStoreFailure /\ AllWellFormed /\ Terminated
    /\ Len(pages) >= 2
    /\ pages[1].Items # <<>> /\ pages[2].Items # <<>>
    /\ Len(yielded) >= 2

\* the store call that fetched page k has failed
FailedAt(k) == Len(calls) = k /\ gstate # "send" /\ pages[k].fail

\* C2: if the store call that fetches page Pk fails, the sequence has
\* terminated, by that pull, with Err carrying the failure, and the consumer
\* has received exactly the records of P1..P(k-1), then and ever after.
C2_FailedPageTerminatesErr ==
    \A k \in 1..Len(pages) :
        FailedAt(k) =>
            /\ Terminated
            /\ firstTerm.call = "next"
            /\ isErr(firstTerm.value)
            /\ firstTerm.value.cause = StoreError
            /\ ReceivedExactly(ItemsUpTo(k - 1))

C2_Witness ==
    /\ Len(pages) >= 2 /\ FailedAt(Len(pages))
    /\ Len(yielded) >= 1
    /\ last.call = "next" /\ last.afterDone

\* the cause an Err carries for a thrown value
IsErrOf(result, thrown) ==
    /\ isErr(result)
    /\ result.cause.type = "error"
    /\ thrown.type = "error" => result.cause = thrown
    /\ thrown.type = "string" => result.cause.message = thrown.val

C4_NoItemAfterDone ==
    (last # NoCall /\ last.afterDone) => IsDone(last.result)

C4_Witness ==
    /\ last # NoCall /\ last.afterDone /\ last.call = "next"
    /\ firstTerm.call = "return"
    /\ NoStoreFailure /\ AllWellFormed
    /\ Len(yielded) >= 1 /\ Len(yielded) < Len(AllItems)

\* C5: after a pull has reported a termination, every later pull reports
\* the same termination outcome: a pull that reports done reports the
\* Result of the first termination a pull reported.
C5_SameTerminationOnEveryPull ==
    (last # NoCall /\ last.call = "next" /\ IsDone(last.result))
        => last.result.value = pullTerm.value

\* the consumer's last call was return with an Err
ClosedWithErr ==
    /\ last # NoCall /\ last.call = "return"
    /\ "promise" \notin DOMAIN last.arg
    /\ "cause" \in DOMAIN last.arg

\* C6: return with Err(c), whatever the state of the sequence, reports done
\* with Err whose cause is c and leaves the sequence terminated and its
\* generator completed, so that no later pull yields an item.
C6_ReturnErrIsFailure ==
    ClosedWithErr =>
        /\ IsDone(last.result)
        /\ isErr(last.result.value)
        /\ last.result.value.cause = last.arg.cause
        /\ Terminated
        /\ gstate = "completed"

C6_Witness ==
    /\ ClosedWithErr /\ ~last.afterDone
    /\ NoStoreFailure /\ AllWellFormed
    /\ Len(yielded) >= 1 /\ Len(yielded) < Len(AllItems)

(***************************************************************************)
(* Properties of searchKeysByBestGuess.                                     *)
(***************************************************************************)
\* the length of the hex payload of the search text supplied
PayloadLen == Len(HexPayload(raw))

IsFingerprintSearch ==
    HexMatches(raw) /\ PayloadLen \in {FingerprintLenV3, FingerprintLenV4, FingerprintLenV6}

IsIdSearch == HexMatches(raw) /\ PayloadLen = KeyIdLen

IsKeywordSearch == ~IsFingerprintSearch /\ ~IsIdSearch

\* the last n characters of s and the characters before them
Trailing(s, n) == [i \in 1..n |-> s[Len(s) - n + i]]

Leading(s, n) == [i \in 1..(Len(s) - n) |-> s[i]]

\* the sequence has been pulled at least once
Pulled == ostate # "start"

\* C7 as stated: for a fingerprint search exactly one store call is issued,
\* a point lookup whose partition key is the last 16 characters of the
\* normalized string and whose sort key is the leading rest.
C7_PointLookupSplit ==
    IsFingerprintSearch =>
        /\ Len(calls) <= 1
        /\ Pulled => Len(calls) = 1
        /\ \A i \in 1..Len(calls) :
              /\ calls[i].command = "GetItem"
              /\ calls[i].pgpKeyId = Trailing(HexPayload(raw), KeyIdLen)
              /\ calls[i].pgpFingerprintUpper = Leading(HexPayload(raw), KeyIdLen)

\* C7 amended: for a fingerprint search exactly one store call is issued
\* once the sequence is pulled and none after it, a point lookup whose
\* partition key is the uppercased last 16 characters of the normalized
\* string and whose sort key is the uppercased leading rest.
C7_PointLookupSplitUppercased ==
    IsFingerprintSearch =>
        /\ Len(calls) <= 1
        /\ Pulled => Len(calls) = 1
        /\ \A i \in 1..Len(calls) :
              /\ calls[i].command = "GetItem"
              /\ calls[i].pgpKeyId = toUpperCase(Trailing(HexPayload(raw), KeyIdLen))
              /\ calls[i].pgpFingerprintUpper = toUpperCase(Leading(HexPayload(raw), KeyIdLen))

C7_Witness ==
    /\ IsFingerprintSearch /\ HasMarker(raw)
    /\ Len(calls) = 1 /\ calls[1].command = "GetItem"
    /\ Len(yielded) = 1
    /\ Terminated /\ last.afterDone

\* C8: for an id search every store call is a partition query keyed by the
\* uppercased normalized string, and an answer with zero records and no
\* continuation token terminates the sequence with Ok.
C8_IdSearchQueries ==
    IsIdSearch =>
        /\ \A i \in 1..Len(calls) :
              /\ calls[i].command = "Query"
              /\ calls[i].term = toUpperCase(HexPayload(raw))
        /\ \A k \in 1..Len(pages) :
              (/\ Len(calls) = k /\ gstate # "send" /\ ~pages[k].fail
               /\ pages[k].Items = <<>> /\ pages[k].LastEvaluatedKey = NoKey)
                  => /\ Terminated
                     /\ firstTerm.value = ok(Undefined)

C8_Witness ==
    /\ IsIdSearch /\ HasMarker(raw)
    /\ Len(calls) = 2 /\ calls[2].command = "Query"
    /\ yielded = <<>>
    /\ Terminated /\ isOk(firstTerm.value)

\* C9: for a keyword search every store call is a filtered scan, whose
\* filter is the equality test on primaryUserId when exact is set and the
\* OR of the three substring tests otherwise.
C9_KeywordSearchScans ==
    IsKeywordSearch =>
        \A i \in 1..Len(calls) :
            /\ calls[i].command = "Scan"
            /\ lookup.exact => calls[i].FilterExpression = "primaryUserId = :term"
            /\ ~lookup.exact => calls[i].FilterExpression =
                  "contains(primaryUserId, :term) OR contains(pgpKeyId, :term) OR contains(pgpFingerprintUpper, :term)"

C9_Witness ==
    /\ IsKeywordSearch /\ HexMatches(raw) /\ lookup.exact
    /\ Len(calls) = 2 /\ calls[2].command = "Scan"
    /\ Len(yielded) >= 1

\* C10 as stated: on the keyword path the filter term of every scan is the
\* search text exactly as the caller supplied it.
C10_TermIsRawText ==
    IsKeywordSearch => \A i \in 1..Len(calls) : calls[i].term = raw

\* C10 amended: on the keyword path the filter term of every scan is the
\* text as supplied when the search did not match the hex pattern, and the
\* marker-stripped hex payload when it matched.
C10_TermIsRawOrPayload ==
    IsKeywordSearch =>
        \A i \in 1..Len(calls) :
            /\ calls[i].command = "Scan"
            /\ ~HexMatches(raw) => calls[i].term = raw
            /\ HexMatches(raw) => calls[i].term = HexPayload(raw)

C10_Witness ==
    /\ IsKeywordSearch /\ HexMatches(raw) /\ HasMarker(raw)
    /\ Len(calls) >= 1 /\ calls[1].command = "Scan"
    /\ calls[1].term # raw

\* the store item it carries the three required attributes
HasRequiredAttributes(it) ==
    {"pgpKeyId", "pgpFingerprintUpper", "primaryUserId"} \subseteq DOMAIN it

\* C11: on the fingerprint path at most one item is ever yielded, and once
\* the sequence has terminated: a failed point lookup gave Err of the
\* failure and no item; a miss gave Ok(void) and no item; a hit on a
\* well-formed record gave exactly that record and then Ok(void).
C11_FingerprintOutcomes ==
    IsFingerprintSearch =>
        /\ Len(yielded) <= 1
        /\ Terminated =>
              /\ PointAnswer.fail =>
                    /\ isErr(firstTerm.value)
                    /\ firstTerm.value.cause = StoreError
                    /\ yielded = <<>>
              /\ (~PointAnswer.fail /\ PointAnswer.Items = <<>>) =>
                    /\ firstTerm.value = ok(Undefined)
                    /\ yielded = <<>>
              /\ (/\ ~PointAnswer.fail /\ PointAnswer.Items # <<>>
                  /\ HasRequiredAttributes(PointAnswer.Items[1])) =>
                    /\ firstTerm.value = ok(Undefined)
                    /\ Len(yielded) = 1
                    /\ IsRecordOf(yielded[1], PointAnswer.Items[1])

C11_Witness ==
    /\ IsFingerprintSearch /\ Terminated
    /\ ~PointAnswer.fail /\ PointAnswer.Items # <<>>
    /\ Len(yielded) = 1
    /\ firstTerm.value = ok(Undefined)

\* the last pull reported an Err termination whose cause is the failed
\* assertion of extractKeyMetadata
ReportedAssertionAsErr ==
    /\ last # NoCall
    /\ IsDone(last.result)
    /\ isErr(last.result.value)
    /\ last.result.value.cause = AssertionError

\* C19: a record that lacks one of the three required string attributes is
\* raised to the caller as an exception on every query path: no pull ever
\* reports the failed assertion as an Err termination of the sequence.
C19_MalformedRecordRaises == ~ReportedAssertionAsErr

\* the fields of a lookup other than search are those of the lookup u
SameButSearch(l, u) ==
    /\ DOMAIN l = DOMAIN u
    /\ \A f \in DOMAIN u \ {"search"} : l[f] = u[f]

\* C12: once searchKeysByBestGuess has run, the caller's lookup differs from
\* the lookup the caller constructed in nothing but search; search is the
\* hex payload without its marker when the constructed search matched the
\* hex pattern, and is the constructed search otherwise.  Before the first
\* pull the lookup is as constructed.
C12_OnlySearchNormalized ==
    /\ SameButSearch(lookup, given)
    /\ ~Pulled => lookup = given
    /\ (Pulled /\ HexMatches(given.search)) => lookup.search = HexPayload(given.search)
    /\ (Pulled /\ ~HexMatches(given.search)) => lookup = given

C12_Witness ==
    /\ Pulled
    /\ HexMatches(given.search) /\ HasMarker(given.search)
    /\ "options" \in DOMAIN given
    /\ given.exact
    /\ lookup.search = HexPayload(given.search)
    /\ lookup # given

ReadFailedAt(k) ==
    /\ objects[gets[k].Key].get = "stream"
    /\ objects[gets[k].Key].fail
    /\ k < Len(gets) \/ hpc \notin {"getObject", "read"}

\* C13: when the read of a stream has failed, formatKeys has returned Err of
\* that failure, which carries no body and so none of the bytes read before;
\* the failed stream is the last one obtained, and the last thing the
\* sequence was asked for is the item of that stream: it was not pulled again.
C13_ReadFailureEndsFormatKeys ==
    \A k \in 1..Len(gets) :
        ReadFailedAt(k) =>
            /\ hpc = "done"
            /\ hres = err(ReadError)
            /\ "value" \notin DOMAIN hres
            /\ k = Len(gets)
            /\ IsYield(last.result)
            /\ last.result.value["fingerprint"] = gets[k].Key
            /\ ~Terminated

C13_Witness ==
    /\ Len(gets) = 2
    /\ objects[gets[1].Key].get = "stream" /\ ~objects[gets[1].Key].fail
    /\ ReadFailedAt(2)
    /\ Len(chunks) = 2
    /\ Len(pages) = 2 /\ Len(calls) = 1
    /\ hres = err(ReadError)

\* the k-th GetObject command failed
GetFailedAt(k) ==
    /\ objects[gets[k].Key].get = "fail"
    /\ k < Len(gets) \/ hpc # "getObject"

\* C18: when the GetObject call for a matched key has failed, the result of
\* the get operation, once returned, is Err carrying that failure, never a
\* body that leaves the key out.
C18_GetObjectFailureSurfaced ==
    \A k \in 1..Len(gets) :
        (GetFailedAt(k) /\ hpc = "done") =>
            /\ isErr(hres)
            /\ hres.cause = ObjectError

\* formatIndices has returned
IndicesDone == hpc = "done"

\* the options ask for JSON: present, with json, without mr
AsksJson ==
    /\ "options" \in DOMAIN lookup
    /\ \E i \in 1..Len(lookup.options) : lookup.options[i] = "json"
    /\ \A i \in 1..Len(lookup.options) : lookup.options[i] # "mr"

\* C14: in both modes, when the sequence terminated with Err the result of
\* formatIndices is that Err and has no body, whatever was yielded before;
\* a result with a body comes only from a sequence drained to Ok.
C14_ErrTerminationNoBody ==
    IndicesDone =>
        /\ isErr(source.term) => (hres = source.term /\ "value" \notin DOMAIN hres)
        /\ isOk(hres) =>
              /\ isOk(source.term)
              /\ taken = Len(source.items)
              /\ "body" \in DOMAIN hres.value

C14_Witness ==
    /\ IndicesDone
    /\ isErr(source.term)
    /\ Len(source.items) = 2 /\ taken = 2
    /\ Len(chunks) = 2
    /\ hres = err(StoreError)

\* the records of s whose fingerprint is first seen at their place, and for
\* each the last record of s with that fingerprint
FirstPlaces(s) ==
    SelectSeq([i \in 1..Len(s) |-> i],
              LAMBDA i : \A j \in 1..(i - 1) : s[j]["fingerprint"] # s[i]["fingerprint"])

LastWith(s, name) ==
    s[CHOOSE i \in 1..Len(s) :
          /\ s[i]["fingerprint"] = name
          /\ \A j \in (i + 1)..Len(s) : s[j]["fingerprint"] # name]

\* the mapping of fingerprints to their last record
LastWins(s) ==
    [k \in 1..Len(FirstPlaces(s)) |->
        LET name == s[FirstPlaces(s)[k]]["fingerprint"] IN
        [name |-> name.val, value |-> LastWith(s, name)]]

\* the body of the machine-readable form: two lines per record, in order
MachineBody(s) ==
    Flatten([i \in 1..Len(s) |->
                <<"p", "u", "b", ":">> \o s[i]["fingerprint"].val \o <<"\n", "u", "i", "d", ":">>
                  \o encodeURIComponent(s[i]["primaryUserId"].val) \o <<"\n">>])

\* C15: a successful formatIndices has content type application/json and a
\* JSON body exactly when the options ask for JSON, and has content type
\* text/plain and the machine-readable body in every other case.
C15_JsonOnlyWhenAsked ==
    (IndicesDone /\ isOk(hres)) =>
        IF AsksJson
        THEN /\ hres.value.headers.ContentType = "application/json"
             /\ hres.value.body = JSONstringify(LastWins(source.items))
        ELSE /\ hres.value.headers.ContentType = "text/plain"
             /\ hres.value.body = MachineBody(source.items)

C15_Witness ==
    /\ IndicesDone /\ isOk(hres)
    /\ "options" \in DOMAIN lookup /\ lookup.options = <<"json", "mr">>
    /\ Len(source.items) >= 1
    /\ hres.value.headers.ContentType = "text/plain"

\* C16: in JSON mode, after a drained sequence, the mapping has one entry
\* per distinct fingerprint yielded, each entry is the last record yielded
\* with its fingerprint, and the body is the serialization of that mapping.
C16_JsonLastWriteWins ==
    (IndicesDone /\ isOk(hres) /\ AsksJson) =>
        /\ Len(indices) = Cardinality({source.items[i]["fingerprint"] : i \in 1..Len(source.items)})
        /\ \A i \in 1..Len(source.items) :
              \E e \in 1..Len(indices) : indices[e].name = source.items[i]["fingerprint"].val
        /\ \A e \in 1..Len(indices) :
              \E i \in 1..Len(source.items) :
                 /\ indices[e].value = source.items[i]
                 /\ indices[e].name = source.items[i]["fingerprint"].val
                 /\ \A j \in (i + 1)..Len(source.items) :
                       source.items[j]["fingerprint"] # source.items[i]["fingerprint"]
        /\ hres.value.body = JSONstringify(indices)

C16_Witness ==
    /\ IndicesDone /\ isOk(hres) /\ AsksJson
    /\ Len(source.items) = 3
    /\ source.items[1] = extractKeyMetadata(Item1)
    /\ source.items[2] = extractKeyMetadata(Item2)
    /\ source.items[3] = extractKeyMetadata(Item1Later)
    /\ Len(indices) = 2
    /\ indices[1].value = extractKeyMetadata(Item1Later)

\* C17: in machine-readable mode, after a drained sequence r1..rn, the body
\* is the pub line and the uid line (user id percent-encoded) of r1, then
\* those of r2, and so on to rn: one pair per record, in arrival order.
C17_MachineLinesInOrder ==
    (IndicesDone /\ isOk(hres) /\ ~AsksJson) =>
        /\ Len(chunks) = Len(source.items)
        /\ hres.value.body = MachineBody(source.items)

C17_Witness ==
    /\ IndicesDone /\ isOk(hres) /\ ~AsksJson
    /\ Len(source.items) = 3
    /\ source.items[1] = extractKeyMetadata(Item1Later)
    /\ source.items[2] = extractKeyMetadata(Item2)
    /\ source.items[3] = extractKeyMetadata(Item1)
    /\ hres.value.body # machineLineRawUid(source.items[1])
                          \o machineLineRawUid(source.items[2])
                          \o machineLineRawUid(source.items[3])

\* the yielded record y was derived from some item of the store's answers:
\* id is its pgpKeyId, fingerprint its pgpFingerprintUpper then its pgpKeyId
DerivedFromSomeItem(y) ==
    \E i \in 1..Len(AllItems) :
        /\ {"pgpKeyId", "pgpFingerprintUpper"} \subseteq DOMAIN AllItems[i]
        /\ y["id"].val = AllItems[i]["pgpKeyId"].val
        /\ y["fingerprint"].val =
              AllItems[i]["pgpFingerprintUpper"].val \o AllItems[i]["pgpKeyId"].val

C24_RequestsOnDemandAndChained ==
    /\ gstate = "start" => calls = <<>>
    /\ calls # <<>> => calls[1].ExclusiveStartKey = NoKey
    /\ \A k \in 1..(Len(calls) - 1) :
          /\ Len(yielded) >= Len(ItemsUpTo(k))
          /\ \A i \in 1..Len(ItemsUpTo(k)) : IsRecordOf(yielded[i], ItemsUpTo(k)[i])
          /\ calls[k + 1] = [calls[1] EXCEPT !.ExclusiveStartKey = pages[k].LastEvaluatedKey]
          /\ pages[k].LastEvaluatedKey # NoKey

C24_Witness ==
    /\ Len(calls) = 2
    /\ Len(pages[1].Items) = 2
    /\ Len(yielded) = 2
    /\ gstate = "send"
    /\ calls[2].ExclusiveStartKey = 1

\* C25: once the sequence has reported termination, by a failed store call,
\* by the end of the pages or by the consumer's throw or return, no step
\* sends a request to the store.
C25_NoRequestAfterTermination ==
    [][Terminated => calls' = calls]_vars

C25_Witness ==
    /\ Terminated
    /\ last.afterDone /\ last.call = "next"
    /\ Len(calls) = 2 /\ pages[2].fail
    /\ isErr(firstTerm.value)

\* C27: when no store call fails and every record is well-formed, a consumer
\* that keeps pulling is eventually told the sequence has terminated, having
\* received exactly the records of all pages; and termination is reported
\* only once every page has been requested, so a page that is empty but
\* carries a continuation token does not end the sequence.
C27_EventuallyTerminatesAfterAllRecords ==
    /\ []((NoStoreFailure /\ AllWellFormed /\ Terminated) => Len(calls) = Len(pages))
    /\ (NoStoreFailure /\ AllWellFormed) ~> (Terminated /\ ReceivedExactly(AllItems))

C27_Witness ==
    /\ NoStoreFailure /\ AllWellFormed
    /\ Len(pages) = 2
    /\ pages[1].Items = <<>> /\ pages[1].LastEvaluatedKey # NoKey
    /\ Len(pages[2].Items) = 2
    /\ Terminated /\ Len(yielded) = 2

\* the chunks of the stream the k-th GetObject command obtained, if any
ChunksOf(k) ==
    IF objects[gets[k].Key].get = "stream" THEN objects[gets[k].Key].data ELSE <<>>

\* the chunks of the streams obtained before the latest GetObject command
ChunksBeforeLatest == Flatten([k \in 1..(Len(gets) - 1) |-> ChunksOf(k)])

\* C26: the retrieval is one flow.  GetObject commands are sent one per
\* yielded key, in the order the keys were yielded.  While a GetObject call
\* or a stream is in progress no store request is pending.  When the latest
\* GetObject command was sent, every stream obtained before it had been read
\* to its end without failure, its chunks pushed in order, and nothing of
\* the stream it obtains had been read.
C26_SingleFlow ==
    /\ Len(gets) = Len(yielded)
    /\ \A k \in 1..Len(gets) : gets[k].Key = yielded[k]["fingerprint"]
    /\ hpc \in {"getObject", "read"} => (gstate # "send" /\ ostate # "fpSend")
    /\ IsPrefix(ChunksBeforeLatest, chunks)
    /\ hpc = "getObject" => chunks = ChunksBeforeLatest
    /\ \A k \in 1..(Len(gets) - 1) :
          objects[gets[k].Key].get = "stream" => ~objects[gets[k].Key].fail

C26_Witness ==
    /\ Len(gets) = 2 /\ hpc = "getObject"
    /\ objects[gets[1].Key].get = "stream"
    /\ Len(chunks) = 1
    /\ Len(pages) = 2 /\ Len(calls) = 1

(***************************************************************************)
(* Properties of Result.                                                    *)
(***************************************************************************)
Returned(call) == ~("raised" \in DOMAIN call.result)

\* the message carried by a cause, as a JavaScript value
MessageOf(cause) ==
    IF cause.type = "error" THEN JsString(cause.message)
    ELSE cause.fields.message

\* C21: ok(v) and err(c) return for every argument; ok(v) satisfies isOk and
\* not isErr, err(c) satisfies isErr and not isOk.
C21_ConstructorsTotal ==
    \A i \in 1..Len(alog) :
        /\ Returned(alog[i])
        /\ alog[i].fn = "ok" =>
               isOk(alog[i].result) /\ ~isErr(alog[i].result)
        /\ alog[i].fn = "err" =>
               isErr(alog[i].result) /\ ~isOk(alog[i].result)

\* the part of C21 that the code keeps: a call that returns gives the right
\* shape, also for an object that has a field named value
C21_ReturnedShape ==
    \A i \in 1..Len(alog) :
        Returned(alog[i]) =>
            /\ isOk(alog[i].result) # isErr(alog[i].result)
            /\ isOk(alog[i].result) = (alog[i].fn = "ok")

\* C22: the message of the cause built by err is a string: for a string s
\* it is s, for a non-Error object with message m it is String(m), and the
\* other fields of the object are on the cause.
C22_MessageIsString ==
    \A i \in 1..Len(alog) :
        (alog[i].fn = "err" /\ Returned(alog[i])) =>
            /\ alog[i].arg.type = "string" =>
                   MessageOf(alog[i].result.cause) = alog[i].arg
            /\ (alog[i].arg.type = "object"
                    /\ "message" \in DOMAIN alog[i].arg.fields) =>
                   /\ MessageOf(alog[i].result.cause).type = "string"
                   /\ MessageOf(alog[i].result.cause)
                         = String(alog[i].arg.fields.message)
                   /\ \A f \in DOMAIN alog[i].arg.fields \ {"message"} :
                         alog[i].result.cause.fields[f] = alog[i].arg.fields[f]

\* the part of C22 that the code keeps: a string becomes the message, and
\* every field of an object cause is on the cause unchanged
C22_StringAndFieldsKept ==
    \A i \in 1..Len(alog) :
        (alog[i].fn = "err" /\ Returned(alog[i])) =>
            /\ alog[i].arg.type = "string" =>
                   MessageOf(alog[i].result.cause) = alog[i].arg
            /\ alog[i].arg.type = "object" =>
                   alog[i].result.cause.fields = alog[i].arg.fields

(***************************************************************************)
(* Properties of the hget handler.                                          *)
(***************************************************************************)
\* the search the caller gave is missing, is not hex, or has a payload of a
\* length other than 32, 40 and 64
HgetBadSearch ==
    IF "search" \notin DOMAIN given THEN TRUE
    ELSE IF ~HexMatches(given.search) THEN TRUE
    ELSE Len(HexPayload(given.search))
            \notin {FingerprintLenV3, FingerprintLenV4, FingerprintLenV6}

\* C28: with a missing, non-hex or wrongly sized search hget returns an Err
\* with a BadLookupError and sends nothing to the store or the object store;
\* otherwise it sends exactly one point lookup.
C28_HgetRefusesBadSearch ==
    /\ HgetBadSearch =>
          /\ calls = <<>>
          /\ gets = <<>>
          /\ hpc \in {"start", "done"}
          /\ hpc = "done" =>
                 isErr(hres) /\ hres.cause.name = "BadLookupError"
    /\ (~HgetBadSearch /\ hpc # "start") =>
          /\ Len(calls) = 1
          /\ calls[1] = GetItemCommand([search |-> HexPayload(given.search)])

C28_Witness ==
    /\ hpc = "done"
    /\ "search" \in DOMAIN given
    /\ HexMatches(given.search)
    /\ Len(HexPayload(given.search)) = KeyIdLen
    /\ isErr(hres)
    /\ calls = <<>>

(***************************************************************************)
(* Properties of the entry point.                                           *)
(***************************************************************************)
\* the handler returned Ok and the search matched no key
MatchedNoKey ==
    /\ hpc = "responded"
    /\ isOk(hres)
    /\ CASE handlerOf(event) = "index" -> source.items = <<>>
         [] handlerOf(event) = "get" -> yielded = <<>>
         [] handlerOf(event) = "hget" -> PointAnswer.Items = <<>>
         [] OTHER -> FALSE

EmptyLookupReply ==
    formatError(EmptyLookupError(NoKeysMatching \o lookup.search))

\* C29: whatever the operation and the options, a handler that succeeds on
\* a search that matched no key is answered with the EmptyLookupError and
\* the NotFound status.
C29_NoKeyIsNotFound ==
    MatchedNoKey => reply.statusCode = "NotFound" /\ reply = EmptyLookupReply

\* what the entry point does: an empty body is answered with NotFound, so
\* the machine index, get and hget answer a search without keys that way
C29_EmptyBodyIsNotFound ==
    (hpc = "responded" /\ isOk(hres)) =>
        IF Len(hres.value.body) = 0 THEN reply = EmptyLookupReply
        ELSE reply = hres.value

C29_NoKeyNotFoundUnlessJson ==
    (MatchedNoKey /\ ~(handlerOf(event) = "index" /\ ~isMachine(lookup))) =>
        reply = EmptyLookupReply

\* the JSON index of no key is answered with OK and the body {}
C29_JsonIndexOfNoKey ==
    /\ MatchedNoKey
    /\ handlerOf(event) = "index"
    /\ reply.statusCode = "OK"
    /\ reply.body = <<"{", "}">>

====
